---- MODULE Spec2Model ----
(***************************************************************************)
(* AngryCAPTCHA: the strategy cascade of AngryCAPTCHA.solveCaptcha, the    *)
(* three strategies it races against createTimeout, the environment        *)
(* profile and solver configuration it is built from, and the              *)
(* SimpleAngryCAPTCHA wrappers around it.                                  *)
(*                                                                         *)
(* The program runs on one JavaScript event loop: every action below is    *)
(* one task of that loop (a call's synchronous prefix, the continuation    *)
(* of an await, the callback of a timer), atomic up to its next await.     *)
(* Strings the program takes apart (markup, puzzle data, tokens) are       *)
(* sequences of one-character strings.                                     *)
(***************************************************************************)
EXTENDS Integers, Sequences, FiniteSets, TLC

VARIABLES
  env,              \* process.env and the file system, as read by detectEnvironment
  environmentInfo,  \* AngryCAPTCHA.environmentInfo (Null until first profiled)
  solverConfig,     \* AngryCAPTCHA.solverConfig (Null until first derived)
  browser,          \* AngryCAPTCHA.browser: 0 (null) or the id of a launched browser
  browsers,         \* id -> "none" | "launching" | "connected" | "closed"
  timers,           \* pending setTimeout callbacks, in registration order
  call,             \* per solveCaptcha call: the locals of the call
  strat,            \* per call and strategy: the position of the strategy's async body
  pup,              \* per call: the locals of solveCaptchaWithPuppeteer
  sub,              \* per call and browser sub-strategy: position of its async body
  page,             \* per call: the page the automation strategy opened
  closer,           \* the closeBrowser activation: its position and what it holds
  probe,            \* a markup string and what the two markup functions returned for it
  debug,            \* the debugProduction activation: its position and what it logged
  form,             \* the submitForm activation: its arguments and the requests it sent
  pow,              \* the simulateProofOfWork activation: its arguments and its locals
  http              \* per call: the locals of solveCaptchaWithHttp

vars == <<env, environmentInfo, solverConfig, browser, browsers, timers,
          call, strat, pup, sub, page, closer, probe, debug, form, pow, http>>

(***************************************************************************)
(* Bounds of the model and constants of the program.                       *)
(***************************************************************************)
MaxBrowsers == 2       \* browsers the rendering engine launches in one run

SOLVE_TIMEOUT == 30000
SIM_DELAY == 2000

Null == [null |-> TRUE]

Calls == {"c1", "c2"}
Kinds == {"puppeteer", "http", "simulation"}
Subs == {"direct", "iframe", "manual"}
SubOrder == <<"direct", "iframe", "manual">>

Min(a, b) == IF a <= b THEN a ELSE b

(***************************************************************************)
(* Strings and 32-bit arithmetic.  A JavaScript int32 is kept as its two   *)
(* unsigned 16-bit halves, so that no intermediate value leaves the range  *)
(* of the checker's integers.                                              *)
(***************************************************************************)
Ascii == <<
  " ", "!", "dq", "#", "$", "%", "&", "'", "(", ")", "*", "+", ",", "-", ".", "/",
  "0", "1", "2", "3", "4", "5", "6", "7", "8", "9", ":", ";", "<", "=", ">", "?",
  "@", "A", "B", "C", "D", "E", "F", "G", "H", "I", "J", "K", "L", "M", "N", "O",
  "P", "Q", "R", "S", "T", "U", "V", "W", "X", "Y", "Z", "[", "bs", "]", "^", "_",
  "bq", "a", "b", "c", "d", "e", "f", "g", "h", "i", "j", "k", "l", "m", "n", "o",
  "p", "q", "r", "s", "t", "u", "v", "w", "x", "y", "z", "{", "|", "}", "~" >>

\* String.prototype.charCodeAt for the printable ASCII characters
\* (the double quote, backslash and backquote are written dq, bs and bq)
charCodeAt(ch) == 31 + CHOOSE k \in 1..Len(Ascii) : Ascii[k] = ch

Digits == <<"0", "1", "2", "3", "4", "5", "6", "7", "8", "9",
            "a", "b", "c", "d", "e", "f">>

RECURSIVE toStringRadix(_, _)
\* Number.prototype.toString(radix) of a non-negative integer
toStringRadix(num, radix) ==
  IF num < radix THEN <<Digits[num + 1]>>
  ELSE toStringRadix(num \div radix, radix) \o <<Digits[(num % radix) + 1]>>

\* String.prototype.substring(0, n)
substring0(str, len) == SubSeq(str, 1, Min(len, Len(str)))

\* String.prototype.startsWith
startsWith(str, pre) == Len(pre) <= Len(str) /\ SubSeq(str, 1, Len(pre)) = pre

\* '0'.repeat(n)
repeat0(cnt) == [k \in 1..cnt |-> "0"]

\* one round of simpleHash's loop: hash = ((hash << 5) - hash) + char; hash & hash
hashStep(h, code) ==
  LET lo == h.lo * 31 + code
  IN [hi |-> (h.hi * 31 + (lo \div 65536)) % 65536, lo |-> lo % 65536]

\* simpleHash's for-loop over the characters str[a..b], entered with hash h.
\* The range is walked left half first, then right half; the halves of the
\* running hash stay in 0..65535.
RECURSIVE hashLoop(_, _, _, _)
hashLoop(str, a, b, h) ==
  IF a > b THEN h
  ELSE IF a = b THEN hashStep(h, charCodeAt(str[a]))
  ELSE LET mid == (a + b) \div 2
           left == hashLoop(str, a, mid, h)
       IN IF left.lo \in 0..65535 THEN hashLoop(str, mid + 1, b, left) ELSE left

\* Math.abs of the int32 with halves h, again as halves (of a value <= 2^31)
absHalves(h) ==
  IF h.hi < 32768 THEN h
  ELSE IF h.lo = 0 THEN [hi |-> 65536 - h.hi, lo |-> 0]
  ELSE [hi |-> 65535 - h.hi, lo |-> 65536 - h.lo]

\* hexadecimal digits of hi * 65536 + lo, without leading zeros
hexOfHalves(h) ==
  IF h.hi = 0 THEN toStringRadix(h.lo, 16)
  ELSE LET low == toStringRadix(h.lo, 16)
       IN toStringRadix(h.hi, 16) \o repeat0(4 - Len(low)) \o low

simpleHash(str) == hexOfHalves(absHalves(hashLoop(str, 1, Len(str), [hi |-> 0, lo |-> 0])))

PoWCeiling == 10000

RECURSIVE powLoop(_, _, _, _)
powLoop(dat, target, nonce, iter) ==
  IF iter >= PoWCeiling THEN <<>>
  ELSE LET hash == simpleHash(dat \o toStringRadix(nonce, 10))
       IN IF startsWith(hash, target) THEN hash
          ELSE powLoop(dat, target, nonce + 1, iter + 1)

\* what stands for the RangeError that '0'.repeat throws for a negative count
RangeError == <<"RangeError">>

\* simulateProofOfWork; now is Date.now().toString() at the fallback
simulateProofOfWork(dat, diff, now) ==
  IF diff \div 1000 < 0 THEN RangeError
  ELSE LET target == repeat0(diff \div 1000)
           found == powLoop(dat, target, 0, 0)
       IN IF found # <<>> THEN found ELSE simpleHash(dat \o now)

(***************************************************************************)
(* EnvironmentInfo and SolverConfig.                                       *)
(***************************************************************************)
ServerlessVars ==
  {"VERCEL", "NETLIFY", "AWS_LAMBDA_FUNCTION_NAME", "FUNCTION_NAME", "CF_PAGES"}
VercelChrome == "/usr/bin/chromium-browser"

\* process.env.X as a truthy/falsy test: a variable is set iff it is in e.set
\* (the serverless indicators) or non-empty (the two chrome paths)
chromePathOf(e, plat) ==
  IF e.CHROME_PATH # "" THEN e.CHROME_PATH
  ELSE IF e.PUPPETEER_EXECUTABLE_PATH # "" THEN e.PUPPETEER_EXECUTABLE_PATH
  ELSE IF plat = "vercel" THEN VercelChrome
  ELSE ""

\* the body of detectEnvironment below its cache test
computeEnvironment(e) ==
  LET isDev == e.NODE_ENV = "development"
      isProd == e.NODE_ENV = "production"
      isSless == e.set \cap ServerlessVars # {}
      plat == IF "VERCEL" \in e.set THEN "vercel"
                  ELSE IF "NETLIFY" \in e.set THEN "netlify"
                  ELSE IF "AWS_LAMBDA_FUNCTION_NAME" \in e.set THEN "aws-lambda"
                  ELSE IF "CF_PAGES" \in e.set THEN "cloudflare"
                  ELSE IF isDev THEN "development"
                  ELSE "server"
      chromePath == chromePathOf(e, plat)
      \* require('puppeteer') throws when the package is missing: both flags stay false
      chromeOk == IF ~e.puppeteerInstalled THEN FALSE
                         ELSE IF chromePath # "" THEN chromePath \in e.files
                         ELSE ~isSless
  IN [isDevelopment |-> isDev, isProduction |-> isProd,
      isServerless |-> isSless, platform |-> plat,
      puppeteerAvailable |-> e.puppeteerInstalled,
      chromeAvailable |-> chromeOk]

\* the object literal getConfig assigns to solverConfig
\* deriveConfig without the serverless test on enablePuppeteer
deriveConfigIgnoresServerless(info) ==
  [timeout |-> IF info.isProduction THEN 20000 ELSE 30000,
   maxRetries |-> IF info.isProduction THEN 2 ELSE 3,
   enablePuppeteer |-> info.puppeteerAvailable /\ info.chromeAvailable,
   enableHttpFallback |-> TRUE,
   enableAntiDetection |-> info.isProduction,
   resourceLimits |-> [maxMemory |-> IF info.isServerless THEN 512 ELSE 1024,
                       maxCpuUsage |-> IF info.isServerless THEN 80 ELSE 90]]

deriveConfig(info) ==
  [timeout |-> IF info.isProduction THEN 20000 ELSE 30000,
   maxRetries |-> IF info.isProduction THEN 2 ELSE 3,
   enablePuppeteer |-> info.puppeteerAvailable /\ info.chromeAvailable /\ ~info.isServerless,
   enableHttpFallback |-> TRUE,
   enableAntiDetection |-> info.isProduction,
   resourceLimits |-> [maxMemory |-> IF info.isServerless THEN 512 ELSE 1024,
                       maxCpuUsage |-> IF info.isServerless THEN 80 ELSE 90]]

(***************************************************************************)
(* The mutable state as one record, so that the synchronous chains of the  *)
(* program (a handler calling the next function before it awaits) compose  *)
(* as functions from state to state.                                       *)
(***************************************************************************)
Cur ==
  [env |-> env, environmentInfo |-> environmentInfo, solverConfig |-> solverConfig,
   browser |-> browser, browsers |-> browsers, timers |-> timers,
   call |-> call, strat |-> strat, pup |-> pup, sub |-> sub, page |-> page,
   closer |-> closer, probe |-> probe, debug |-> debug, form |-> form,
   pow |-> pow, http |-> http]

Commit(s) ==
  /\ env' = s.env
  /\ environmentInfo' = s.environmentInfo
  /\ solverConfig' = s.solverConfig
  /\ browser' = s.browser
  /\ browsers' = s.browsers
  /\ timers' = s.timers
  /\ call' = s.call
  /\ strat' = s.strat
  /\ pup' = s.pup
  /\ sub' = s.sub
  /\ page' = s.page
  /\ closer' = s.closer
  /\ probe' = s.probe
  /\ debug' = s.debug
  /\ form' = s.form
  /\ pow' = s.pow
  /\ http' = s.http

\* detectEnvironment without the cache: the profile is taken at every call
detectEnvironmentFresh(s) ==
  [s EXCEPT !.environmentInfo = computeEnvironment(s.env)]

detectEnvironment(s) ==
  IF s.environmentInfo # Null THEN s
  ELSE [s EXCEPT !.environmentInfo = computeEnvironment(s.env)]

\* getConfig with no cache: the configuration is derived, at every call,
\* from the process environment as it is then
getConfigUncached(s) ==
  LET s1 == detectEnvironment(s)
  IN [s1 EXCEPT !.solverConfig = deriveConfig(computeEnvironment(s1.env))]

getConfig(s) ==
  IF s.solverConfig # Null THEN s
  ELSE LET s1 == detectEnvironment(s)
       IN [s1 EXCEPT !.solverConfig = deriveConfig(s1.environmentInfo)]

(***************************************************************************)
(* CaptchaSolveResult values.  An optional field that is not set is a      *)
(* field the record does not have.  The elapsed times and the ISO time     *)
(* stamp (solveTime, timestamp) are not modelled.                          *)
(***************************************************************************)
Failure(e) == [success |-> FALSE, error |-> e]

\* formDataOf, the two values appended under each other's name
formDataSwapped(tok, key) ==
  << <<"frc-captcha-solution", key>>, <<"frc-captcha-sitekey", tok>> >>

\* new URLSearchParams() followed by the two appends
formDataOf(tok, key) ==
  << <<"frc-captcha-solution", tok>>, <<"frc-captcha-sitekey", key>> >>

\* Success, with the error field written as well
SuccessWithError(tok, meth, dbg, fd) ==
  [success |-> TRUE,
   solution |-> [solution |-> tok, method |-> meth, debugInfo |-> dbg],
   formData |-> fd, error |-> ""]

Success(tok, meth, dbg, fd) ==
  [success |-> TRUE,
   solution |-> [solution |-> tok, method |-> meth, debugInfo |-> dbg],
   formData |-> fd]

\* challenge.f || dflt for an optional field
FieldOr(chal, f, dflt) == IF f \in DOMAIN chal THEN chal[f] ELSE dflt

\* challenge.sitekey as URLSearchParams.append writes it: the type is not
\* enforced at run time, and a value that is not there is appended as the
\* text undefined
sitekeyText(chal) ==
  FieldOr(chal, "sitekey", <<"u", "n", "d", "e", "f", "i", "n", "e", "d">>)

Timer(c, knd, num, ms) == [call |-> c, kind |-> knd, n |-> num, rem |-> ms, dur |-> ms]

\* the message of the Error createTimeout rejects with
timeoutMessage(ms) == "Timeout after " \o ToString(ms) \o "ms"

(***************************************************************************)
(* The protocol-fallback strategy (solveCaptchaWithHttp) and the           *)
(* simulation strategy (solveCaptchaWithApiSimulation).                    *)
(***************************************************************************)
Dot == <<".">>

\* solvePuzzleHttp with the whole puzzle data for a prefix
solvePuzzleHttpWholeData(puzzleData, now) ==
  IF puzzleData.data # <<>>
  THEN LET diff == IF puzzleData.difficulty # 0 THEN puzzleData.difficulty ELSE 1000
           workValue == simulateProofOfWork(puzzleData.data, diff, now)
       IN IF workValue = RangeError THEN <<>>
          ELSE puzzleData.data \o Dot \o workValue \o Dot \o now
  ELSE <<>>

\* solvePuzzleHttp: the token, or <<>> for its null.  A puzzle body is
\* [data, difficulty], data = <<>> and difficulty = 0 standing for a missing
\* (or falsy) field.  Its catch block turns an exception into null.
solvePuzzleHttp(puzzleData, now) ==
  IF puzzleData.data # <<>>
  THEN LET diff == IF puzzleData.difficulty # 0 THEN puzzleData.difficulty ELSE 1000
           prefix == substring0(puzzleData.data, 16)
           workValue == simulateProofOfWork(puzzleData.data, diff, now)
       IN IF workValue = RangeError THEN <<>>
          ELSE prefix \o Dot \o workValue \o Dot \o now
  ELSE <<>>

\* the result solveCaptchaWithHttp returns once response.json() has resolved
httpResult(chal, puzzleData, now) ==
  LET sol == solvePuzzleHttp(puzzleData, now)
  IN IF sol # <<>>
     THEN Success(sol, "fallback", "http-fallback", formDataOf(sol, sitekeyText(chal)))
     ELSE Failure("HTTP solve failed")

\* JSON.stringify(widgetData)
jsonWidget(w) ==
  <<"{", "dq", "s", "i", "t", "e", "k", "e", "y", "dq", ":", "dq">> \o w.sitekey
  \o <<"dq", ",", "dq", "t", "i", "m", "e", "s", "t", "a", "m", "p", "dq", ":">>
  \o w.timestamp
  \o <<",", "dq", "d", "i", "f", "f", "i", "c", "u", "l", "t", "y", "dq", ":">>
  \o toStringRadix(w.difficulty, 10)
  \o <<",", "dq", "l", "a", "n", "g", "dq", ":", "dq">> \o w.lang \o <<"dq", "}">>

\* generateMockSolution, for a widgetData that has a sitekey
generateMockSolution(widgetData, now) ==
  substring0(widgetData.sitekey, 16) \o Dot \o simpleHash(jsonWidget(widgetData))
  \o Dot \o now

\* widgetData as built before the delay; a difficulty of 0 is falsy
widgetDataOf(chal, now) ==
  LET rest == [timestamp |-> now,
               difficulty |-> IF FieldOr(chal, "difficulty", 0) # 0
                              THEN chal.difficulty ELSE 1,
               lang |-> FieldOr(chal, "lang", <<"e", "n">>)]
  IN IF "sitekey" \in DOMAIN chal
     THEN [x \in DOMAIN rest \cup {"sitekey"} |->
             IF x = "sitekey" THEN chal.sitekey ELSE rest[x]]
     ELSE rest

\* simulationResult, generateMockSolution yielding nothing: the throw of
\* 'API simulation failed' is caught and returned
simulationResultEmpty(chal, widgetData, now) ==
  Failure("API simulation failed")

\* the result solveCaptchaWithApiSimulation returns after its delay: with no
\* sitekey, widgetData.sitekey.substring throws a TypeError inside the try
simulationResult(chal, widgetData, now) ==
  IF "sitekey" \notin DOMAIN widgetData
  THEN Failure("Cannot read properties of undefined (reading 'substring')")
  ELSE LET sol == generateMockSolution(widgetData, now)
       IN IF sol # <<>>
          THEN Success(sol, "fallback", "api-simulation",
                       formDataOf(sol, sitekeyText(chal)))
          ELSE Failure("API simulation failed")

(***************************************************************************)
(* The browser: initBrowser / initRegularBrowser up to puppeteer.launch.   *)
(***************************************************************************)
BrowserIds == 1..MaxBrowsers

connected(s) == s.browser # 0 /\ s.browsers[s.browser].state = "connected"

freeBrowserIds(s) == {b \in BrowserIds : s.browsers[b].state = "none"}

\* launchOptions.executablePath ("" when the option is not set); the two
\* environment variables are read when the browser is launched
executablePathOf(info, e) ==
  IF info.platform = "vercel" THEN VercelChrome
  ELSE IF e.CHROME_PATH # "" THEN e.CHROME_PATH
  ELSE e.PUPPETEER_EXECUTABLE_PATH

(***************************************************************************)
(* solveCaptchaWithPuppeteer and its three sub-strategies.                 *)
(* strat[c].puppeteer is the position of the strategy's body:              *)
(*   "launch" (await initBrowser, a launch pending), "newPage",            *)
(*   "configure", "racing" (inside the for loop, awaiting the race),       *)
(*   "abandoned" (inside the for loop, the strategy's own race lost),      *)
(*   "closing" (the finally block), "done".                                *)
(* sub[c][name] is the position of a sub-strategy's body: "loading"        *)
(* (setContent up to widget.start()), "waiting" (waitForFunction, or the   *)
(* promise of the manual page.evaluate), "reading" (the evaluate that      *)
(* reads the input's value), "abandoned" (its race lost to the timer),     *)
(* "done".                                                                 *)
(***************************************************************************)
IdlePup == [browser |-> 0, j |-> 0, lastError |-> "", held |-> Null]
BlankPage == [state |-> "none", doc |-> "blank", input |-> <<>>]

\* strategySettled, the browser strategy giving up the shared handle when
\* it returns
strategySettledClearsHandle(s, c, k) ==
  [s EXCEPT !.strat[c][k] = "done",
            !.pup[c] = IF k = "puppeteer" THEN IdlePup ELSE @,
            !.browser = IF k = "puppeteer" THEN 0 ELSE @]

\* the body of strategy k of call c has returned: its locals are gone
strategySettled(s, c, k) ==
  [s EXCEPT !.strat[c][k] = "done",
            !.pup[c] = IF k = "puppeteer" THEN IdlePup ELSE @]

\* puppeteerStrategies[j]() up to its first await, then createTimeout(SOLVE_TIMEOUT)
startSub(s, c, idx) ==
  [s EXCEPT !.sub[c][SubOrder[idx]] = "loading",
            !.page[c].doc = SubOrder[idx],
            !.page[c].input = <<>>,
            !.timers = Append(@, Timer(c, "inner", idx, SOLVE_TIMEOUT))]

\* solveCaptchaWithPuppeteer up to its first await (inside initBrowser)
startPuppeteer(s, c) ==
  IF connected(s)
  THEN [s EXCEPT !.strat[c]["puppeteer"] = "newPage", !.pup[c].browser = s.browser]
  ELSE LET s1 == getConfig(detectEnvironment(s))
       IN IF ~s1.solverConfig.enablePuppeteer
          THEN \* initBrowser throws; no page was opened (not reached from
               \* solveCaptcha, which lists the strategy only when enabled)
               [s1 EXCEPT !.strat[c]["puppeteer"] = "closing",
                          !.pup[c].held =
                             Failure("Puppeteer not available in current environment")]
          ELSE LET b == CHOOSE x \in freeBrowserIds(s1) :
                               \A y \in freeBrowserIds(s1) : x <= y
               IN [s1 EXCEPT !.strat[c]["puppeteer"] = "launch",
                             !.pup[c].browser = b,
                             !.browsers[b] =
                                [state |-> "launching",
                                 executablePath |->
                                    executablePathOf(s1.environmentInfo, s1.env)]]

(***************************************************************************)
(* solveCaptcha: the strategy list and the cascade.                        *)
(***************************************************************************)
\* buildStrategies, the browser strategy pushed whatever the configuration
buildStrategiesUngated(cfg) ==
  <<"puppeteer">> \o (IF cfg.enableHttpFallback THEN <<"http", "simulation">> ELSE <<>>)

\* the strategies array, by the name of the strategy each closure calls
buildStrategies(cfg) ==
  (IF cfg.enablePuppeteer THEN <<"puppeteer">> ELSE <<>>)
  \o (IF cfg.enableHttpFallback THEN <<"http", "simulation">> ELSE <<>>)

\* strategies[i]() up to the strategy's first await
startStrategy(s, c, k) ==
  CASE k = "puppeteer" -> startPuppeteer(s, c)
    [] k = "http" -> [s EXCEPT !.strat[c]["http"] = "fetch"]
    [] k = "simulation" ->
         [s EXCEPT !.strat[c]["simulation"] = "delay",
                   !.timers = Append(@, Timer(c, "delay", 0, SIM_DELAY))]

\* the head of the for loop, at index call[c].i: Promise.race of the
\* strategy and createTimeout(config.timeout), or the code below the loop
loop(s, c) ==
  LET cl == s.call[c]
  IN IF cl.i > Len(cl.strategies)
     THEN [s EXCEPT !.call[c].pc = "done",
                    !.call[c].result =
                       Failure("All strategies failed. Last error: " \o cl.lastError)]
     ELSE LET k == cl.strategies[cl.i]
              s1 == startStrategy([s EXCEPT !.call[c].invoked = Append(@, k)], c, k)
          IN [s1 EXCEPT !.timers = Append(@, Timer(c, "outer", cl.i, cl.config.timeout))]

\* resolved, not returning from inside the loop: the result is kept and the
\* loop goes on to the next strategy
resolvedKeepsGoing(s, c, r) ==
  LET s1 == [s EXCEPT !.call[c].outcome[s.call[c].strategies[s.call[c].i]] = r]
      s2 == loop([s1 EXCEPT !.call[c].i = @ + 1], c)
  IN IF r.success
     THEN [s2 EXCEPT !.call[c].pc = "done", !.call[c].result = r]
     ELSE s2

\* the race of attempt i resolved with the strategy's result r;
\* call[c].outcome keeps, per strategy, how its attempt was decided
resolved(s, c, r) ==
  LET s1 == [s EXCEPT !.call[c].outcome[s.call[c].strategies[s.call[c].i]] = r]
  IN IF r.success
     THEN [s1 EXCEPT !.call[c].pc = "done", !.call[c].result = r]
     ELSE loop([s1 EXCEPT !.call[c].i = @ + 1], c)

\* rejected, the catch block noting the error and the loop staying at the
\* attempt whose strategy is still pending
rejectedKeepsWaiting(s, c, e) ==
  [s EXCEPT !.call[c].outcome[s.call[c].strategies[s.call[c].i]] = [rejected |-> e],
            !.call[c].lastError = e]

\* rejected, the catch block not moving on: the same strategy is tried again
rejectedRetries(s, c, e) ==
  loop([s EXCEPT !.call[c].outcome[s.call[c].strategies[s.call[c].i]] = [rejected |-> e],
                 !.call[c].lastError = e], c)

\* rejected, with no catch block: the promise of solveCaptcha rejects
rejectedRethrows(s, c, e) ==
  [s EXCEPT !.call[c].pc = "done", !.call[c].result = [rejected |-> e]]

\* a rejected attempt is repeated until config.maxRetries attempts of the
\* strategy were made
rejectedHonoursMaxRetries(s, c, e) ==
  LET cl == s.call[c]
      k == cl.strategies[cl.i]
      tries == Cardinality({n \in 1..Len(cl.invoked) : cl.invoked[n] = k})
      s1 == [s EXCEPT !.call[c].outcome[k] = [rejected |-> e],
                      !.call[c].lastError = e]
  IN IF tries < cl.config.maxRetries
     THEN loop(s1, c)
     ELSE loop([s1 EXCEPT !.call[c].i = @ + 1], c)

\* the race of attempt i rejected with message e: the catch block
rejected(s, c, e) ==
  loop([s EXCEPT !.call[c].outcome[s.call[c].strategies[s.call[c].i]] =
                    [rejected |-> e],
                 !.call[c].lastError = e,
                 !.call[c].i = @ + 1], c)

\* is strategy k the one the cascade of call c is awaiting?
racing(s, c, k) ==
  /\ s.call[c].pc = "running"
  /\ s.call[c].i <= Len(s.call[c].strategies)
  /\ s.call[c].strategies[s.call[c].i] = k

\* strategy k of call c resolves with r: it decides the race of its attempt
\* only while that attempt is the one being awaited
settle(s, c, k, r) ==
  LET s1 == strategySettled(s, c, k)
  IN IF racing(s, c, k) THEN resolved(s1, c, r) ELSE s1

\* solveCaptcha(challenge) up to its first await
solveCaptcha(s, c, chal) ==
  LET s1 == getConfig(s)
      s2 == detectEnvironment(s1)
      cfg == s2.solverConfig
  IN loop([s2 EXCEPT !.call[c].pc = "running",
                     !.call[c].challenge = chal,
                     !.call[c].config = cfg,
                     !.call[c].strategies = buildStrategies(cfg),
                     !.call[c].i = 1,
                     !.call[c].lastError = ""], c)

\* pupReturn with no finally block: the promise settles and the page stays
pupReturnNoClose(s, c, r) == settle(s, c, "puppeteer", r)

\* a return (from the try or the catch block) of solveCaptchaWithPuppeteer:
\* with a page, the finally block awaits page.close() before the promise
\* settles; without one the promise settles at once
pupReturn(s, c, r) ==
  IF s.page[c].state = "none"
  THEN settle(s, c, "puppeteer", r)
  ELSE [s EXCEPT !.strat[c]["puppeteer"] = "closing", !.pup[c].held = r]

\* the head of the inner for loop, at index pup[c].j
subLoop(s, c) ==
  IF s.pup[c].j > Len(SubOrder)
  THEN pupReturn(s, c, Failure("All Puppeteer strategies failed. Last error: "
                               \o s.pup[c].lastError))
  ELSE startSub(s, c, s.pup[c].j)

\* the inner race resolved with the sub-strategy's result r
subResolved(s, c, r) ==
  IF r.success
  THEN pupReturn(s, c, Success(r.solution, "puppeteer", r.debugInfo, r.formData))
  ELSE subLoop([s EXCEPT !.pup[c].j = @ + 1], c)

\* subRejected keeping the first error instead of the latest
subRejectedKeepsFirst(s, c, e) ==
  subLoop([s EXCEPT !.pup[c].lastError = IF @ = "" THEN e ELSE @,
                    !.pup[c].j = @ + 1], c)

\* the inner race rejected with message e (a throw, or the inner timer)
subRejected(s, c, e) ==
  subLoop([s EXCEPT !.pup[c].lastError = e, !.pup[c].j = @ + 1], c)

\* is sub-strategy name the one the inner race is awaiting?
racingSub(s, c, name) ==
  /\ s.strat[c]["puppeteer"] = "racing"
  /\ s.pup[c].j <= Len(SubOrder)
  /\ SubOrder[s.pup[c].j] = name

subSettledOk(s, c, name, r) ==
  LET s1 == [s EXCEPT !.sub[c][name] = "done"]
  IN IF racingSub(s, c, name) THEN subResolved(s1, c, r) ELSE s1

subSettledErr(s, c, name, e) ==
  LET s1 == [s EXCEPT !.sub[c][name] = "done"]
  IN IF racingSub(s, c, name) THEN subRejected(s1, c, e) ELSE s1

\* the object a sub-strategy returns
subResult(chal, solutionValue, dbg) ==
  [success |-> TRUE, solution |-> solutionValue,
   formData |-> formDataOf(solutionValue, sitekeyText(chal)),
   debugInfo |-> dbg]

(***************************************************************************)
(* Markup.  A markup string is a sequence of items, each the text of one   *)
(* attribute, script property or call with its value: [kind, value].  The  *)
(* kind says which of the regular expressions and indicator substrings     *)
(* the item's text matches; value is what the capture group captures.      *)
(***************************************************************************)
\* the site-key patterns, in table order, as the kinds of item each matches
SitekeyPatterns ==
  << {"data-sitekey"},                    \* /data-sitekey=["']([^"']+)["']/i
     {"data-fc-sitekey"},                 \* /data-fc-sitekey=["']([^"']+)["']/i
     {"sitekey:", "fc-sitekey:"},         \* /sitekey:\s*["']([^"']+)["']/i
     {"fc-sitekey:"},                     \* /fc-sitekey:\s*["']([^"']+)["']/i
     {"json-sitekey"},                    \* /"sitekey":\s*"([^"]+)"/i
     {"json1-sitekey"},                   \* /'sitekey':\s*'([^']+)'/i
     {"initCaptcha", "window.initCaptcha"},
     {"window.initCaptcha"} >>

PuzzleEndpointPatterns == << {"data-puzzle-endpoint"}, {"puzzleEndpoint:"} >>
DifficultyPatterns == << {"data-difficulty"}, {"difficulty:"} >>
LangPatterns == << {"data-lang"}, {"lang:"} >>
StartPatterns == << {"data-start"}, {"start:"} >>

\* the kinds of item whose own text contains one of containsCaptcha's indicators
IndicatorKinds ==
  {"data-sitekey", "data-fc-sitekey", "data-puzzle-endpoint", "initCaptcha",
   "window.initCaptcha", "frc-captcha"}

\* html.match(pattern): the capture of the leftmost match, <<>> for no match
\* (the capture groups match one character or more)
matchOf(html, kinds) ==
  LET hits == {k \in 1..Len(html) : html[k].kind \in kinds /\ html[k].value # <<>>}
  IN IF hits = {} THEN <<>>
     ELSE html[CHOOSE k \in hits : \A m \in hits : k <= m].value

RECURSIVE extractFrom(_, _, _)
\* the loop of extractValue (and of the site-key search), from pattern p on
extractFrom(html, patterns, p) ==
  IF p > Len(patterns) THEN <<>>
  ELSE IF matchOf(html, patterns[p]) # <<>> THEN matchOf(html, patterns[p])
  ELSE extractFrom(html, patterns, p + 1)

\* extractValue with the patterns merged into one alternation
extractValueUnion(html, patterns) ==
  matchOf(html, UNION {patterns[p] : p \in 1..Len(patterns)})

extractValue(html, patterns) == extractFrom(html, patterns, 1)

RECURSIVE parseInt(_)
\* parseInt of a string of decimal digits
parseInt(digits) ==
  IF digits = <<>> THEN 0
  ELSE parseInt(SubSeq(digits, 1, Len(digits) - 1)) * 10
       + ((CHOOSE d \in 1..10 : Digits[d] = digits[Len(digits)]) - 1)

\* the fields of a record r that are set, an unset field being <<>>
withField(r, f, v) ==
  IF v = <<>> THEN r
  ELSE [x \in DOMAIN r \cup {f} |-> IF x = f THEN v ELSE r[x]]

\* extractCaptchaChallenge with the site-key rules merged into one
\* alternation: the match that comes first in the text wins
extractCaptchaChallengeLeftmost(html) ==
  LET sk == matchOf(html, UNION {SitekeyPatterns[p] : p \in 1..Len(SitekeyPatterns)})
      ep == extractValue(html, PuzzleEndpointPatterns)
      diff == extractValue(html, DifficultyPatterns)
      lng == extractValue(html, LangPatterns)
      sm == extractValue(html, StartPatterns)
      ch1 == withField([sitekey |-> sk], "puzzleEndpoint", ep)
      ch2 == IF diff = <<>> THEN ch1
             ELSE [x \in DOMAIN ch1 \cup {"difficulty"} |->
                     IF x = "difficulty" THEN parseInt(diff) ELSE ch1[x]]
      ch3 == withField(ch2, "lang", lng)
  IN IF sk = <<>> THEN Null ELSE withField(ch3, "startMode", sm)

extractCaptchaChallenge(html) ==
  LET sk == extractValue(html, SitekeyPatterns)
      ep == extractValue(html, PuzzleEndpointPatterns)
      diff == extractValue(html, DifficultyPatterns)
      lng == extractValue(html, LangPatterns)
      sm == extractValue(html, StartPatterns)
      ch1 == withField([sitekey |-> sk], "puzzleEndpoint", ep)
      ch2 == IF diff = <<>> THEN ch1
             ELSE [x \in DOMAIN ch1 \cup {"difficulty"} |->
                     IF x = "difficulty" THEN parseInt(diff) ELSE ch1[x]]
      ch3 == withField(ch2, "lang", lng)
  IN IF sk = <<>> THEN Null ELSE withField(ch3, "startMode", sm)

containsCaptcha(html) == \E k \in 1..Len(html) : html[k].kind \in IndicatorKinds

(***************************************************************************)
(* SimpleAngryCAPTCHA: the wrappers.                                       *)
(***************************************************************************)
\* the catch block of a wrapper
wrapperFailed(s, c, e) ==
  [s EXCEPT !.call[c].pc = "done", !.call[c].result = Failure(e)]

\* solveMarkup with the two tests the other way round: the challenge is
\* extracted first and the indicator test is made only when there is none
solveMarkupExtractsFirst(s, c, html, notFound) ==
  LET s1 == [s EXCEPT !.call[c].html = [held |-> TRUE, text |-> html]]
  IN IF extractCaptchaChallenge(html) # Null
     THEN solveCaptcha(s1, c, extractCaptchaChallenge(html))
     ELSE IF ~containsCaptcha(html) THEN wrapperFailed(s1, c, notFound)
          ELSE wrapperFailed(s1, c, "Failed to extract CAPTCHA challenge")

\* solveFromUrl and solveFromHtml once they hold the markup
solveMarkup(s, c, html, notFound) ==
  LET s1 == [s EXCEPT !.call[c].html = [held |-> TRUE, text |-> html]]
  IN IF ~containsCaptcha(html) THEN wrapperFailed(s1, c, notFound)
     ELSE IF extractCaptchaChallenge(html) = Null
          THEN wrapperFailed(s1, c, "Failed to extract CAPTCHA challenge")
          ELSE solveCaptcha(s1, c, extractCaptchaChallenge(html))

\* an argument that is not given is <<>>
solveWithSitekey(s, c, sk, ep) ==
  solveCaptcha(s, c, IF sk = <<>> THEN [puzzleEndpoint |-> ep]
                     ELSE withField([sitekey |-> sk], "puzzleEndpoint", ep))

(***************************************************************************)
(* Inputs.                                                                 *)
(***************************************************************************)
K1 == <<"k", "1">>
K2 == <<"k", "2">>

\* challenges handed to solveCaptcha
Challenges ==
  { [sitekey |-> K2, puzzleEndpoint |-> <<"u">>, difficulty |-> 2, lang |-> <<"d", "e">>] }

\* (sitekey, puzzleEndpoint) handed to solveWithSitekey; the second is a
\* call from JavaScript that holds no site key
SitekeyArgs == { <<K1, <<>>>>, <<<<>>, <<"u">>>> }

\* markup handed to solveFromHtml, or served to solveFromUrl
Markups ==
  { << [kind |-> "text", value |-> <<>>] >>,
    << [kind |-> "sitekey:", value |-> K1] >>,
    << [kind |-> "frc-captcha", value |-> <<>>] >>,
    << [kind |-> "frc-captcha", value |-> <<>>],
       [kind |-> "data-sitekey", value |-> K1],
       [kind |-> "data-lang", value |-> <<"e", "n">>] >> }

\* bodies of the puzzle endpoint that parse as JSON
PuzzleBodies ==
  { [data |-> <<"a", "b">>, difficulty |-> 500],
    [data |-> <<"a", "b">>, difficulty |-> -1],
    [data |-> <<"0", "1", "2", "3", "4", "5", "6", "7", "8", "9",
                "a", "b", "c", "d", "e", "f", "g", "h">>, difficulty |-> 999],
    [data |-> <<>>, difficulty |-> 0] }

\* values of the solution input that the widget writes
WidgetTokens == { <<"s", "1">> }

\* Date.now().toString()
Timestamps == { <<"1", "7">> }

\* process.env and the file system at start-up
BaseEnv ==
  [NODE_ENV |-> "development", set |-> {}, CHROME_PATH |-> "",
   PUPPETEER_EXECUTABLE_PATH |-> "", puppeteerInstalled |-> TRUE, files |-> {}]

EnvChoices ==
  { BaseEnv,
    [BaseEnv EXCEPT !.NODE_ENV = "production"],
    [BaseEnv EXCEPT !.NODE_ENV = "production", !.set = {"VERCEL"}],
    [BaseEnv EXCEPT !.NODE_ENV = "test", !.puppeteerInstalled = FALSE] }

(***************************************************************************)
(* The initial state: nothing profiled, no browser, no call made.          *)
(***************************************************************************)
\* closeBrowser has no activation: pc is "idle", or "closing" (awaiting
\* browser.close() of target), or "done" with how its promise settled
IdleCloser == [pc |-> "idle", target |-> 0, result |-> Null]

\* debugProduction has no activation ("idle"), awaits puppeteer.launch
\* ("launch") or browser.close() ("closing"), or has returned ("done"); init
\* is what it logged of the browser initialisation
IdleDebug == [pc |-> "idle", browser |-> 0, init |-> "none"]

\* submitForm has no activation ("idle"), has thrown ("threw", with error),
\* awaits its fetch ("fetching") or has its response ("done"); held says
\* that a caller has arguments for it, given that additionalFormData is one
\* of them
IdleForm ==
  [held |-> FALSE, solveResult |-> Null, given |-> FALSE, additional |-> <<>>,
   pc |-> "idle", error |-> "", requests |-> <<>>]

\* simulateProofOfWork has no activation ("idle"), is in its for-loop ("loop",
\* about to test i < 10000), has returned value ("returned") or has thrown
\* ("threw"); hashed counts the calls of simpleHash, found says that the loop
\* returned, now is Date.now().toString() at the fallback
IdlePow ==
  [held |-> FALSE, data |-> <<>>, difficulty |-> 0, now |-> <<>>, pc |-> "idle",
   target |-> <<>>, nonce |-> 0, i |-> 0, hashed |-> 0, found |-> FALSE,
   value |-> <<>>]

\* no markup string is held; asked names the markup functions applied to html
NoProbe == [held |-> FALSE, html |-> <<>>, asked |-> {}, challenge |-> Null,
            contains |-> FALSE]

\* the html of solveFromHtml and solveFromUrl, before the wrapper holds it
NoHtml == [held |-> FALSE, text |-> <<>>]

\* the locals of solveCaptchaWithHttp: how the puzzle request went (got),
\* the parsed body, Date.now() in solvePuzzleHttp, and what it returned
NoHttp ==
  [got |-> "none", body |-> [data |-> <<>>, difficulty |-> 0], now |-> <<>>,
   returned |-> Null]

IdleCall ==
  [pc |-> "idle", entry |-> "none", html |-> NoHtml, challenge |-> Null,
   config |-> Null, strategies |-> <<>>, i |-> 0, lastError |-> "",
   result |-> Null, invoked |-> <<>>, outcome |-> [k \in Kinds |-> Null]]

InitWith(e, ready) ==
  /\ env = e
  /\ environmentInfo = Null
  /\ solverConfig = Null
  /\ browser = 0
  /\ browsers = [b \in BrowserIds |-> [state |-> "none", executablePath |-> ""]]
  /\ timers = <<>>
  /\ call = [c \in Calls |-> IF c \in ready THEN IdleCall
                             ELSE [IdleCall EXCEPT !.pc = "off"]]
  /\ strat = [c \in Calls |-> [k \in Kinds |-> "idle"]]
  /\ pup = [c \in Calls |-> IdlePup]
  /\ sub = [c \in Calls |-> [n \in Subs |-> "idle"]]
  /\ page = [c \in Calls |-> BlankPage]
  /\ closer = IdleCloser
  /\ probe = NoProbe
  /\ debug = IdleDebug
  /\ form = IdleForm
  /\ pow = IdlePow
  /\ http = [c \in Calls |-> NoHttp]

Init == \E e \in EnvChoices : InitWith(e, {"c1"})

(***************************************************************************)
(* Calls of the public operations.                                         *)
(***************************************************************************)
\* a call that may launch a browser needs an id for it
CanCall(c) ==
  /\ call[c].pc = "idle"
  /\ connected(Cur) \/ freeBrowserIds(Cur) # {}

Entered(c, ent) == [Cur EXCEPT !.call[c].entry = ent]

CallSolveCaptcha(c) ==
  /\ CanCall(c)
  /\ \E ch \in Challenges : Commit(solveCaptcha(Entered(c, "solveCaptcha"), c, ch))

CallSolveWithSitekey(c) ==
  /\ CanCall(c)
  /\ \E args \in SitekeyArgs :
        Commit(solveWithSitekey(Entered(c, "solveWithSitekey"), c, args[1], args[2]))

CallSolveFromHtml(c) ==
  /\ CanCall(c)
  /\ \E html \in Markups :
        Commit(solveMarkup(Entered(c, "solveFromHtml"), c, html,
                           "No FriendlyCaptcha found in the HTML content"))

\* solveFromUrl up to its await of fetch(url)
CallSolveFromUrl(c) ==
  /\ CanCall(c)
  /\ Commit([Entered(c, "solveFromUrl") EXCEPT !.call[c].pc = "fetchPage"])

\* fetch(url) rejects
PageFetchRejects(c) ==
  /\ call[c].pc = "fetchPage"
  /\ Commit(wrapperFailed(Cur, c, "fetch failed"))

\* fetch(url) resolves with a response that is not ok
PageFetchNotOk(c) ==
  /\ call[c].pc = "fetchPage"
  /\ \E status \in {404} :
        Commit(wrapperFailed(Cur, c, "Failed to fetch page: " \o ToString(status)))

\* fetch(url) and response.text() resolve
PageFetched(c) ==
  /\ call[c].pc = "fetchPage"
  /\ connected(Cur) \/ freeBrowserIds(Cur) # {}
  /\ \E html \in Markups :
        Commit(solveMarkup(Cur, c, html, "No FriendlyCaptcha found on the page"))

(***************************************************************************)
(* Continuations of the protocol-fallback strategy.                        *)
(***************************************************************************)
\* solveCaptchaWithHttp returns r, having got the puzzle response h
httpReturns(s, c, h, r) ==
  settle([s EXCEPT !.http[c] = [h EXCEPT !.returned = r]], c, "http", r)

\* fetch(puzzleUrl) rejects: the catch block returns the failure
HttpFetchRejects(c) ==
  /\ strat[c]["http"] = "fetch"
  /\ Commit(httpReturns(Cur, c, [NoHttp EXCEPT !.got = "rejected"],
                        Failure("fetch failed")))

\* the puzzle response is not ok
HttpFetchNotOk(c) ==
  /\ strat[c]["http"] = "fetch"
  /\ \E status \in {500} :
        Commit(httpReturns(Cur, c, [NoHttp EXCEPT !.got = "not ok"],
                           Failure("Failed to fetch puzzle: " \o ToString(status))))

\* the puzzle response is ok: await puzzleResponse.json()
HttpFetchOk(c) ==
  /\ strat[c]["http"] = "fetch"
  /\ Commit([Cur EXCEPT !.strat[c]["http"] = "json"])

\* the body does not parse
HttpJsonRejects(c) ==
  /\ strat[c]["http"] = "json"
  /\ Commit(httpReturns(Cur, c, [NoHttp EXCEPT !.got = "unparsable"],
                        Failure("Unexpected token < in JSON")))

\* the body parses: solvePuzzleHttp and the return
HttpJsonParsed(c) ==
  /\ strat[c]["http"] = "json"
  /\ \E body \in PuzzleBodies, now \in Timestamps :
        Commit(httpReturns(Cur, c, [NoHttp EXCEPT !.got = "parsed", !.body = body,
                                                  !.now = now],
                           httpResult(call[c].challenge, body, now)))

(***************************************************************************)
(* Timers: setTimeout callbacks, and the passage of time.                  *)
(***************************************************************************)
RemoveAt(seq, p) == SubSeq(seq, 1, p - 1) \o SubSeq(seq, p + 1, Len(seq))

\* strategy k of call c loses its race to the timer.  Nothing stops it, and
\* it runs on; what is left of the inner loop of the browser strategy writes
\* nothing outside that strategy, and is followed as one step
\* (PupAbandonedEnds) up to the finally block.
abandon(s, c, k) ==
  IF k = "puppeteer" /\ s.strat[c]["puppeteer"] = "racing"
  THEN [s EXCEPT !.strat[c]["puppeteer"] = "abandoned",
                 !.sub[c] = [n \in Subs |->
                               IF @[n] \in {"idle", "done"} THEN @[n]
                               ELSE "abandoned"]]
  ELSE s

\* timerCallback, the timer of an attempt deciding whichever attempt the
\* call is awaiting when it fires
timerCallbackAnyAttempt(s, t, now) ==
  IF t.kind = "outer" /\ s.call[t.call].pc = "running"
  THEN rejected(abandon(s, t.call, s.call[t.call].strategies[s.call[t.call].i]),
                t.call, timeoutMessage(t.dur))
  ELSE s

\* the callback of timer t, the timer already removed from s.timers
timerCallback(s, t, now) ==
  CASE t.kind = "outer" ->
         \* createTimeout(config.timeout) rejects: it decides the race of
         \* attempt t.n only if that race is still undecided
         IF s.call[t.call].pc = "running" /\ s.call[t.call].i = t.n
         THEN rejected(abandon(s, t.call, s.call[t.call].strategies[t.n]),
                       t.call, timeoutMessage(t.dur))
         ELSE s
    [] t.kind = "delay" ->
         \* delay(2000) resolves: the simulation strategy returns
         settle(s, t.call, "simulation",
                simulationResult(s.call[t.call].challenge,
                                 widgetDataOf(s.call[t.call].challenge, now), now))
    [] t.kind = "inner" ->
         \* createTimeout(SOLVE_TIMEOUT) rejects; a sub-strategy that loses
         \* its race runs on with nobody awaiting it
         IF s.strat[t.call]["puppeteer"] = "racing" /\ s.pup[t.call].j = t.n
         THEN subRejected([s EXCEPT !.sub[t.call][SubOrder[t.n]] = "abandoned"],
                          t.call, timeoutMessage(t.dur))
         ELSE s

\* a timer that is due fires; timers of equal duration fire in the order
\* they were set
TimerFire(p) ==
  /\ p \in 1..Len(timers)
  /\ timers[p].rem = 0
  /\ \A q \in 1..(p - 1) : timers[q].dur # timers[p].dur
  /\ \E now \in Timestamps :
        Commit(timerCallback([Cur EXCEPT !.timers = RemoveAt(timers, p)], timers[p], now))

TimerFires == \E p \in 1..Len(timers) : TimerFire(p)

MinRem == CHOOSE m \in {timers[p].rem : p \in 1..Len(timers)} :
             \A q \in 1..Len(timers) : m <= timers[q].rem

\* time passes, up to the next deadline: what happens between two deadlines
\* is ordered by the interleaving of the other actions
Tick ==
  /\ timers # <<>>
  /\ MinRem > 0
  /\ timers' = [p \in 1..Len(timers) |-> [timers[p] EXCEPT !.rem = @ - MinRem]]
  /\ UNCHANGED <<env, environmentInfo, solverConfig, browser, browsers,
                 call, strat, pup, sub, page, closer, probe, debug, form, pow, http>>

(***************************************************************************)
(* Continuations of the browser-automation strategy.                       *)
(***************************************************************************)
\* puppeteer.launch resolves: this.browser is assigned, initBrowser returns
\* it and browser.newPage() is called
LaunchResolves(c) ==
  /\ strat[c]["puppeteer"] = "launch"
  /\ Commit([Cur EXCEPT !.browsers[pup[c].browser].state = "connected",
                        !.browser = pup[c].browser,
                        !.strat[c]["puppeteer"] = "newPage"])

\* puppeteer.launch rejects: the catch block returns the failure
LaunchRejects(c) ==
  /\ strat[c]["puppeteer"] = "launch"
  /\ Commit(pupReturn([Cur EXCEPT !.browsers[pup[c].browser].state = "failed"], c,
                      Failure("Failed to launch the browser process")))

\* browser.newPage() resolves: configurePage(page) is called
NewPageResolves(c) ==
  /\ strat[c]["puppeteer"] = "newPage"
  /\ browsers[pup[c].browser].state = "connected"
  /\ Commit([Cur EXCEPT !.page[c].state = "open", !.strat[c]["puppeteer"] = "configure"])

NewPageRejects(c) ==
  /\ strat[c]["puppeteer"] = "newPage"
  /\ Commit(pupReturn(Cur, c, Failure("Protocol error (Target.createTarget)")))

\* configurePage resolves: the inner loop starts at the first sub-strategy
ConfigureResolves(c) ==
  /\ strat[c]["puppeteer"] = "configure"
  /\ Commit(IF racing(Cur, c, "puppeteer")
            THEN subLoop([Cur EXCEPT !.strat[c]["puppeteer"] = "racing",
                                     !.pup[c].j = 1], c)
            ELSE [Cur EXCEPT !.strat[c]["puppeteer"] = "abandoned"])

\* the inner loop of a strategy nobody awaits comes to its return, whichever
\* way: the finally block is entered with a result that will be dropped
PupAbandonedEnds(c) ==
  /\ strat[c]["puppeteer"] = "abandoned"
  /\ Commit([Cur EXCEPT !.strat[c]["puppeteer"] = "closing"])

ConfigureRejects(c) ==
  /\ strat[c]["puppeteer"] = "configure"
  /\ Commit(pupReturn(Cur, c, Failure("Protocol error (Network.enable)")))

\* PageCloseSettles with a finally block that closes every page of the
\* browser (browser.pages()) instead of the page it opened
PageCloseSettlesAll(c, closed) ==
  /\ strat[c]["puppeteer"] = "closing"
  /\ closed => page[c].state = "open"
  /\ Commit(settle([Cur EXCEPT !.page =
                                  [d \in Calls |->
                                     IF closed /\ page[d].state = "open"
                                     THEN [BlankPage EXCEPT !.state = "closed"]
                                     ELSE page[d]]], c, "puppeteer",
                   pup[c].held))

\* page.close() settles, or there was no page: the strategy's promise
\* resolves with the result held; an error of close is logged and dropped
PageCloseSettles(c, closed) ==
  /\ strat[c]["puppeteer"] = "closing"
  /\ closed => page[c].state = "open"
  /\ Commit(settle([Cur EXCEPT !.page[c] =
                                  IF closed THEN [BlankPage EXCEPT !.state = "closed"]
                                  ELSE @], c, "puppeteer",
                   pup[c].held))

(***************************************************************************)
(* Continuations of the three sub-strategies, and the widget in the page.  *)
(***************************************************************************)
\* the document the sub-strategy loaded is still the page's document
onOwnDocument(c, name) == page[c].state = "open" /\ page[c].doc = name

\* setContent, the wait for the widget and widget.start() succeed
SubLoaded(c, name) ==
  /\ sub[c][name] = "loading"
  /\ onOwnDocument(c, name)
  /\ Commit([Cur EXCEPT !.sub[c][name] = "waiting"])

\* one of them throws (a timeout, a protocol error, a closed page)
SubLoadThrows(c, name) ==
  /\ sub[c][name] = "loading"
  /\ Commit(subSettledErr(Cur, c, name, "Navigation timeout of 30000 ms exceeded"))

\* the iframe sub-strategy finds no frame named captcha-frame
IframeMissing(c) ==
  /\ sub[c]["iframe"] = "loading"
  /\ onOwnDocument(c, "iframe")
  /\ Commit(subSettledErr(Cur, c, "iframe", "Iframe solve failed"))

\* waitForFunction resolves: the solution input is non-empty
SubWaitResolves(c, name) ==
  /\ name # "manual"
  /\ sub[c][name] = "waiting"
  /\ onOwnDocument(c, name)
  /\ page[c].input # <<>>
  /\ Commit([Cur EXCEPT !.sub[c][name] = "reading"])

\* the promise of the manual page.evaluate resolves with the input's value
ManualResolves(c) ==
  /\ sub[c]["manual"] = "waiting"
  /\ onOwnDocument(c, "manual")
  /\ page[c].input # <<>>
  /\ Commit(subSettledOk(Cur, c, "manual",
                         subResult(call[c].challenge, page[c].input,
                                   "manual-integration")))

\* the wait throws (its 25000 ms timeout, a closed page, a replaced document)
SubWaitThrows(c, name) ==
  /\ sub[c][name] = "waiting"
  /\ Commit(subSettledErr(Cur, c, name,
                          IF name = "manual" THEN "Manual integration timeout"
                          ELSE "Waiting failed: 25000ms exceeded"))

\* input?.value || '' as the page evaluates it now
readSolutionValue(c, name) ==
  IF page[c].doc = name THEN page[c].input ELSE <<>>

\* the evaluate that reads the value resolves: the sub-strategy returns
SubReadResolves(c, name) ==
  /\ sub[c][name] = "reading"
  /\ page[c].state = "open"
  /\ Commit(subSettledOk(Cur, c, name,
                         subResult(call[c].challenge, readSolutionValue(c, name),
                                   IF name = "direct" THEN "direct-widget" ELSE "iframe")))

SubReadThrows(c, name) ==
  /\ sub[c][name] = "reading"
  /\ Commit(subSettledErr(Cur, c, name, "Execution context was destroyed"))

\* a sub-strategy that lost its race comes to its end, whichever way: none
\* of its remaining steps writes anything, and its result is dropped
SubAbandonedEnds(c, name) ==
  /\ sub[c][name] = "abandoned"
  /\ Commit([Cur EXCEPT !.sub[c][name] = "done"])

\* the widget of the loaded document writes a solution into the input
WidgetSolves(c) ==
  /\ page[c].state = "open"
  /\ page[c].doc # "blank"
  /\ page[c].input = <<>>
  /\ \E tok \in WidgetTokens : Commit([Cur EXCEPT !.page[c].input = tok])

\* the widget clears the input again (a reset, an expired solution) after a
\* wait has seen it filled; before that a reset is as if it was never filled
WidgetResets(c) ==
  /\ page[c].state = "open"
  /\ page[c].input # <<>>
  /\ \E name \in Subs : sub[c][name] = "reading"
  /\ Commit([Cur EXCEPT !.page[c].input = <<>>])

(***************************************************************************)
(* The specification.                                                      *)
(***************************************************************************)
Next ==
  \/ \E c \in Calls :
       \/ CallSolveCaptcha(c)
       \/ CallSolveWithSitekey(c)
       \/ CallSolveFromHtml(c)
       \/ CallSolveFromUrl(c)
       \/ PageFetchRejects(c)
       \/ PageFetchNotOk(c)
       \/ PageFetched(c)
       \/ HttpFetchRejects(c)
       \/ HttpFetchNotOk(c)
       \/ HttpFetchOk(c)
       \/ HttpJsonRejects(c)
       \/ HttpJsonParsed(c)
       \/ LaunchResolves(c)
       \/ LaunchRejects(c)
       \/ NewPageResolves(c)
       \/ NewPageRejects(c)
       \/ ConfigureResolves(c)
       \/ ConfigureRejects(c)
       \/ PupAbandonedEnds(c)
       \/ \E closed \in BOOLEAN : PageCloseSettles(c, closed)
       \/ IframeMissing(c)
       \/ ManualResolves(c)
       \/ WidgetSolves(c)
       \/ WidgetResets(c)
       \/ \E name \in Subs :
            \/ SubLoaded(c, name)
            \/ SubLoadThrows(c, name)
            \/ SubWaitResolves(c, name)
            \/ SubWaitThrows(c, name)
            \/ SubReadResolves(c, name)
            \/ SubReadThrows(c, name)
            \/ SubAbandonedEnds(c, name)
  \/ TimerFires
  \/ Tick

Spec == Init /\ [][Next]_vars

\* the same program in the development profile, every timer that was
\* started firing in the end (setTimeout); nothing is assumed of the network,
\* the browser or the page
FairInit == InitWith(BaseEnv, {"c1"})

\* ENABLED TimerFires, written out: of the timers that are due, the one set
\* first can fire
TimerDue == \E p \in 1..Len(timers) : timers[p].rem = 0

\* weak fairness of Tick and of TimerFires
TimersFair ==
  /\ WF_vars(Tick)
  /\ []<>(~TimerDue) \/ []<><<TimerFires>>_vars

FairSpec == FairInit /\ [][Next]_vars /\ TimersFair

(***************************************************************************)
(* The profile alone: every process environment of EnvSpace, and a call    *)
(* of solveCaptcha up to its first await.                                  *)
(***************************************************************************)
ChromePaths == {"/opt/chrome", "/opt/chromium", VercelChrome}

EnvSpace ==
  [NODE_ENV : {"development", "production", "test"},
   set : SUBSET ServerlessVars,
   CHROME_PATH : {"", "/opt/chrome"},
   PUPPETEER_EXECUTABLE_PATH : {"", "/opt/chromium"},
   puppeteerInstalled : BOOLEAN,
   files : SUBSET ChromePaths]

EnvInit == \E e \in EnvSpace : InitWith(e, {"c1"})
EnvNext == \E c \in Calls : CallSolveCaptcha(c)
SpecEnv == EnvInit /\ [][EnvNext]_vars

(***************************************************************************)
(* The browser session over several operations: two calls of solveCaptcha  *)
(* (one after the other or at the same time), cleanup(), and a process     *)
(* environment that is altered while the program runs.                     *)
(***************************************************************************)
\* closeBrowser up to its await of this.browser.close(); with no handle it
\* returns at once
closeBrowser(s) ==
  IF s.browser = 0
  THEN [s EXCEPT !.closer = [pc |-> "done", target |-> 0, result |-> "resolved"]]
  ELSE [s EXCEPT !.closer = [pc |-> "closing", target |-> s.browser, result |-> Null]]

\* the continuation of closeBrowser after browser.close() resolved
closeBrowserResumes(s) ==
  [s EXCEPT !.browser = 0,
            !.closer = [pc |-> "done", target |-> s.closer.target,
                        result |-> "resolved"]]

\* browser.close() rejected: nothing catches it, the assignment is skipped
closeBrowserThrows(s) ==
  [s EXCEPT !.closer = [pc |-> "done", target |-> s.closer.target,
                        result |-> "rejected"]]

\* AngryCAPTCHA.cleanup() or SimpleAngryCAPTCHA.cleanup(), no other
\* activation of it being in progress
CallCleanup ==
  /\ closer.pc # "closing"
  /\ Commit(closeBrowser(Cur))

\* the browser being closed disconnects and its process exits
BrowserExits ==
  /\ closer.pc = "closing"
  /\ browsers[closer.target].state = "connected"
  /\ Commit([Cur EXCEPT !.browsers[closer.target].state = "closed"])

BrowserCloseResolves ==
  /\ closer.pc = "closing"
  /\ browsers[closer.target].state = "closed"
  /\ Commit(closeBrowserResumes(Cur))

BrowserCloseRejects ==
  /\ closer.pc = "closing"
  /\ Commit(closeBrowserThrows(Cur))

\* values process.env takes while the program runs
EnvAfter == { BaseEnv, [BaseEnv EXCEPT !.CHROME_PATH = "/opt/chrome"] }

\* an environment variable is written after the profile was taken
EnvChanges ==
  /\ environmentInfo # Null
  /\ \E e \in EnvAfter \ {env} : Commit([Cur EXCEPT !.env = e])

\* the continuations of the strategies of call c that are not timers
Continues(c) ==
  \/ HttpFetchRejects(c)
  \/ HttpFetchNotOk(c)
  \/ HttpFetchOk(c)
  \/ HttpJsonRejects(c)
  \/ HttpJsonParsed(c)
  \/ LaunchResolves(c)
  \/ LaunchRejects(c)
  \/ NewPageResolves(c)
  \/ NewPageRejects(c)
  \/ ConfigureResolves(c)
  \/ ConfigureRejects(c)
  \/ \E closed \in BOOLEAN : PageCloseSettles(c, closed)
  \/ IframeMissing(c)
  \/ ManualResolves(c)
  \/ WidgetSolves(c)
  \/ WidgetResets(c)
  \/ \E name \in Subs :
       \/ SubLoaded(c, name)
       \/ SubLoadThrows(c, name)
       \/ SubWaitResolves(c, name)
       \/ SubWaitThrows(c, name)
       \/ SubReadResolves(c, name)
       \/ SubReadThrows(c, name)

\* a second solveCaptcha, called once the first has returned
CallAgain == call["c1"].pc = "done" /\ CallSolveCaptcha("c2")

\* One caller that makes one call of solveCaptcha after the other and calls
\* cleanup() when it likes, followed up to the first deadline (no timer is
\* due in that time)
SessionInit == InitWith(BaseEnv, Calls)

SessionNext ==
  \/ CallSolveCaptcha("c1")
  \/ CallAgain
  \/ \E c \in Calls : Continues(c)
  \/ CallCleanup
  \/ BrowserExits
  \/ BrowserCloseResolves
  \/ BrowserCloseRejects
  \/ EnvChanges

SpecSession == SessionInit /\ [][SessionNext]_vars

\* Callers that call solveCaptcha and cleanup() at the same time: the steps
\* that read or write the shared handle (the check of initBrowser, the
\* launch and its assignment, closeBrowser), each call followed up to the
\* first await after them
HandleNext ==
  \/ \E c \in Calls :
       \/ CallSolveCaptcha(c)
       \/ LaunchResolves(c)
       \/ LaunchRejects(c)
  \/ CallCleanup
  \/ BrowserExits
  \/ BrowserCloseResolves
  \/ BrowserCloseRejects
  \/ EnvChanges

SpecHandle == SessionInit /\ [][HandleNext]_vars

\* Two calls of solveCaptcha at any time in a process that has no rendering
\* engine: the protocol-fallback and the simulation strategy, and time
NoEngineEnv == [BaseEnv EXCEPT !.puppeteerInstalled = FALSE]

FallbackInit == InitWith(NoEngineEnv, Calls)

FallbackNext ==
  \/ \E c \in Calls :
       \/ CallSolveCaptcha(c)
       \/ HttpFetchRejects(c)
       \/ HttpFetchNotOk(c)
       \/ HttpFetchOk(c)
       \/ HttpJsonRejects(c)
       \/ HttpJsonParsed(c)
  \/ TimerFires
  \/ Tick

SpecFallback == FallbackInit /\ [][FallbackNext]_vars

(***************************************************************************)
(* simulateProofOfWork, one pass of its for-loop at a time.                *)
(***************************************************************************)
\* the entry of simulateProofOfWork: nonce = 0 and the target string
simulateProofOfWorkEnters(s) ==
  IF s.pow.difficulty \div 1000 < 0
  THEN [s EXCEPT !.pow.pc = "threw", !.pow.value = RangeError]
  ELSE [s EXCEPT !.pow.pc = "loop", !.pow.nonce = 0, !.pow.i = 0,
                 !.pow.target = repeat0(s.pow.difficulty \div 1000)]

\* the test i < 10000 and, past it, the body of the loop; the fallback
\* return when the test fails.  hashed counts the hashes of the loop.
powIteration(s) ==
  IF s.pow.i < PoWCeiling
  THEN LET hash == simpleHash(s.pow.data \o toStringRadix(s.pow.nonce, 10))
       IN IF startsWith(hash, s.pow.target)
          THEN [s EXCEPT !.pow.pc = "returned", !.pow.found = TRUE,
                         !.pow.value = hash, !.pow.hashed = @ + 1]
          ELSE [s EXCEPT !.pow.nonce = @ + 1, !.pow.i = @ + 1, !.pow.hashed = @ + 1]
  ELSE [s EXCEPT !.pow.pc = "returned",
                 !.pow.value = simpleHash(s.pow.data \o s.pow.now)]

\* puzzle data: a short one, and one whose hash with nonce 3 is zero
PowData == { <<"a", "b">>, <<"a", "a", "n", "j", "h", "v", "i", "r">> }

\* puzzleData.difficulty || 1000: any number but zero
PowDifficulties == {-1, 500, 1000, 2000}

PowInit ==
  /\ env = BaseEnv
  /\ environmentInfo = Null
  /\ solverConfig = Null
  /\ browser = 0
  /\ browsers = [b \in BrowserIds |-> [state |-> "none", executablePath |-> ""]]
  /\ timers = <<>>
  /\ call = [c \in Calls |-> [IdleCall EXCEPT !.pc = "off"]]
  /\ strat = [c \in Calls |-> [k \in Kinds |-> "idle"]]
  /\ pup = [c \in Calls |-> IdlePup]
  /\ sub = [c \in Calls |-> [n \in Subs |-> "idle"]]
  /\ page = [c \in Calls |-> BlankPage]
  /\ closer = IdleCloser
  /\ debug = IdleDebug
  /\ probe = NoProbe
  /\ form = IdleForm
  /\ http = [c \in Calls |-> NoHttp]
  /\ \E d \in PowData, n \in PowDifficulties, t \in Timestamps :
        pow = [IdlePow EXCEPT !.held = TRUE, !.data = d, !.difficulty = n, !.now = t]

CallSimulateProofOfWork ==
  /\ pow.held
  /\ pow.pc = "idle"
  /\ Commit(simulateProofOfWorkEnters(Cur))

PowIterates ==
  /\ pow.pc = "loop"
  /\ Commit(powIteration(Cur))

PowNext == CallSimulateProofOfWork \/ PowIterates

SpecPoW == PowInit /\ [][PowNext]_vars

\* the continuations of the browser-automation strategy of call c
PageSteps(c) ==
  \/ LaunchResolves(c)
  \/ LaunchRejects(c)
  \/ NewPageResolves(c)
  \/ NewPageRejects(c)
  \/ ConfigureResolves(c)
  \/ ConfigureRejects(c)
  \/ \E closed \in BOOLEAN : PageCloseSettles(c, closed)
  \/ IframeMissing(c)
  \/ ManualResolves(c)
  \/ WidgetSolves(c)
  \/ WidgetResets(c)
  \/ \E name \in Subs :
       \/ SubLoaded(c, name)
       \/ SubLoadThrows(c, name)
       \/ SubWaitResolves(c, name)
       \/ SubWaitThrows(c, name)
       \/ SubReadResolves(c, name)
       \/ SubReadThrows(c, name)

\* Two calls of solveCaptcha at the same time, each followed through its
\* browser-automation strategy up to the first deadline (the network does
\* not answer in that time)
PagesNext == \E c \in Calls : CallSolveCaptcha(c) \/ PageSteps(c)

SpecPages == SessionInit /\ [][PagesNext]_vars

(***************************************************************************)
(* One call of solveCaptcha whose browser-automation strategy is followed  *)
(* step by step after the outer timer has decided its race: nothing stops  *)
(* the strategy, so its inner loop, its sub-strategies and their timers    *)
(* go on as before, and only its return is dropped (settle).               *)
(***************************************************************************)
\* the callback of timer t, the strategy that loses the outer race keeping
\* its position instead of being summarised as "abandoned"
timerCallbackRunsOn(s, t, now) ==
  IF t.kind = "outer"
  THEN IF s.call[t.call].pc = "running" /\ s.call[t.call].i = t.n
       THEN rejected(s, t.call, timeoutMessage(t.dur))
       ELSE s
  ELSE timerCallback(s, t, now)

TimerFiresRunsOn ==
  \E p \in 1..Len(timers) :
    /\ timers[p].rem = 0
    /\ \A q \in 1..(p - 1) : timers[q].dur # timers[p].dur
    /\ \E now \in Timestamps :
          Commit(timerCallbackRunsOn([Cur EXCEPT !.timers = RemoveAt(timers, p)],
                                     timers[p], now))

InnerInit == InitWith(BaseEnv, {"c1"})

InnerNext ==
  \/ CallSolveCaptcha("c1")
  \/ PageSteps("c1")
  \/ PupAbandonedEnds("c1")
  \/ \E name \in Subs : SubAbandonedEnds("c1", name)
  \/ TimerFiresRunsOn
  \/ Tick

SpecInner == InnerInit /\ [][InnerNext]_vars

(***************************************************************************)
(* debugProduction, the other caller of initBrowser.                       *)
(***************************************************************************)
\* initBrowser returned a browser: 'SUCCESS' is logged and closeBrowser is
\* called, which awaits this.browser.close()
debugCloses(s) ==
  [s EXCEPT !.debug = [pc |-> "closing", browser |-> s.browser, init |-> "SUCCESS"]]

\* debugProduction up to its first await that another task settles:
\* diagnoseDeployment, then initBrowser when require('puppeteer') worked
debugProduction(s) ==
  LET s1 == getConfig(detectEnvironment(s))
  IN IF ~s1.env.puppeteerInstalled
     THEN [s1 EXCEPT !.debug = [pc |-> "done", browser |-> 0, init |-> "skipped"]]
     ELSE IF connected(s1) THEN debugCloses(s1)
     ELSE IF ~s1.solverConfig.enablePuppeteer
     THEN [s1 EXCEPT !.debug =
              [pc |-> "done", browser |-> 0,
               init |-> "FAILED: Puppeteer not available in current environment"]]
     ELSE LET b == CHOOSE x \in freeBrowserIds(s1) :
                          \A y \in freeBrowserIds(s1) : x <= y
          IN [s1 EXCEPT !.debug = [pc |-> "launch", browser |-> b, init |-> "none"],
                        !.browsers[b] =
                           [state |-> "launching",
                            executablePath |->
                               executablePathOf(s1.environmentInfo, s1.env)]]

CallDebugProduction ==
  /\ debug.pc = "idle"
  /\ connected(Cur) \/ freeBrowserIds(Cur) # {}
  /\ Commit(debugProduction(Cur))

\* puppeteer.launch resolves: this.browser is assigned and initBrowser returns
DebugLaunchResolves ==
  /\ debug.pc = "launch"
  /\ Commit(debugCloses([Cur EXCEPT !.browsers[debug.browser].state = "connected",
                                    !.browser = debug.browser]))

\* puppeteer.launch rejects: the catch block logs the failure
DebugLaunchRejects ==
  /\ debug.pc = "launch"
  /\ Commit([Cur EXCEPT !.browsers[debug.browser].state = "failed",
                        !.debug = [pc |-> "done", browser |-> 0,
                                   init |-> "FAILED: Failed to launch the browser process"]])

\* the browser debugProduction is closing disconnects and its process exits
DebugBrowserExits ==
  /\ debug.pc = "closing"
  /\ browsers[debug.browser].state = "connected"
  /\ Commit([Cur EXCEPT !.browsers[debug.browser].state = "closed"])

\* browser.close() resolves: closeBrowser clears the handle and returns
DebugCloseResolves ==
  /\ debug.pc = "closing"
  /\ browsers[debug.browser].state = "closed"
  /\ Commit([Cur EXCEPT !.browser = 0, !.debug.pc = "done"])

\* browser.close() rejects: closeBrowser throws into the catch block
DebugCloseRejects ==
  /\ debug.pc = "closing"
  /\ Commit([Cur EXCEPT !.debug.pc = "done", !.debug.init = "FAILED: Protocol error"])

\* process environments at start-up: a server, two serverless platforms (one
\* with a Chrome binary in place) and a function without the puppeteer
\* package; the environment variables can be rewritten once the profile is
\* taken
DebugEnvs ==
  { BaseEnv,
    [BaseEnv EXCEPT !.NODE_ENV = "production", !.set = {"VERCEL"},
                    !.files = {VercelChrome}],
    [BaseEnv EXCEPT !.set = {"NETLIFY"}, !.CHROME_PATH = "/opt/chrome",
                    !.files = {"/opt/chrome"}],
    [BaseEnv EXCEPT !.NODE_ENV = "production", !.set = {"AWS_LAMBDA_FUNCTION_NAME"},
                    !.puppeteerInstalled = FALSE] }

DebugInit == \E e \in DebugEnvs : InitWith(e, {"c1"})

DebugNext ==
  \/ CallSolveCaptcha("c1")
  \/ Continues("c1")
  \/ CallDebugProduction
  \/ DebugLaunchResolves
  \/ DebugLaunchRejects
  \/ DebugBrowserExits
  \/ DebugCloseResolves
  \/ DebugCloseRejects
  \/ CallCleanup
  \/ BrowserExits
  \/ BrowserCloseResolves
  \/ BrowserCloseRejects
  \/ EnvChanges

SpecDebug == DebugInit /\ [][DebugNext]_vars

(***************************************************************************)
(* SimpleAngryCAPTCHA.submitForm.  A URLSearchParams is the sequence of    *)
(* its (name, value) pairs; additionalFormData is the sequence of the      *)
(* object's entries as Object.entries enumerates them.                     *)
(***************************************************************************)
MaxFields == 2         \* entries of additionalFormData

\* URLSearchParams.get(name) || ''
searchParamsGetOr(fd, name) ==
  LET hits == {k \in 1..Len(fd) : fd[k][1] = name}
  IN IF hits = {} THEN <<>>
     ELSE fd[CHOOSE k \in hits : \A h \in hits : k <= h][2]

\* submitForm appending the additional fields before the two CAPTCHA fields
submitFormFieldsFirst(s) ==
  LET r == s.form.solveResult
  IN IF ~r.success \/ "solution" \notin DOMAIN r
     THEN [s EXCEPT !.form.pc = "threw",
                    !.form.error = "Cannot submit form: CAPTCHA solve was not successful"]
     ELSE LET sitekey == IF "formData" \in DOMAIN r
                         THEN searchParamsGetOr(r.formData, "frc-captcha-sitekey")
                         ELSE <<>>
              body == (IF s.form.given THEN s.form.additional ELSE <<>>)
                      \o << <<"frc-captcha-solution", r.solution.solution>>,
                            <<"frc-captcha-sitekey", sitekey>> >>
          IN [s EXCEPT !.form.pc = "fetching",
                       !.form.requests = Append(@, [method |-> "POST", body |-> body])]

\* submitForm up to its return: it throws, or returns the promise of fetch
submitForm(s) ==
  LET r == s.form.solveResult
  IN IF ~r.success \/ "solution" \notin DOMAIN r
     THEN [s EXCEPT !.form.pc = "threw",
                    !.form.error = "Cannot submit form: CAPTCHA solve was not successful"]
     ELSE LET sitekey == IF "formData" \in DOMAIN r
                         THEN searchParamsGetOr(r.formData, "frc-captcha-sitekey")
                         ELSE <<>>
              body == << <<"frc-captcha-solution", r.solution.solution>>,
                         <<"frc-captcha-sitekey", sitekey>> >>
                      \o (IF s.form.given THEN s.form.additional ELSE <<>>)
          IN [s EXCEPT !.form.pc = "fetching",
                       !.form.requests = Append(@, [method |-> "POST", body |-> body])]

\* results a caller hands to submitForm: what solveCaptcha returns, and
\* objects of the same type put together by the caller
SolveResults ==
  { Failure("All solving strategies failed. Last error: fetch failed"),
    [success |-> TRUE],
    [success |-> FALSE, solution |-> [solution |-> K1, method |-> "fallback"]],
    [success |-> TRUE, solution |-> [solution |-> K1, method |-> "fallback"]] }
  \cup { Success(tok, "puppeteer", "direct-widget", formDataOf(tok, key)) :
            tok \in {<<>>, <<"s", "1">>}, key \in {K1, <<>>} }

FieldNames == {<<"n">>, <<"e">>, <<"frc-captcha-solution">>}
FieldValues == {<<"x">>, <<>>}

\* the entries of an additionalFormData object: no name twice
AdditionalFields ==
  { f \in UNION { [1..n -> FieldNames \X FieldValues] : n \in 0..MaxFields } :
      \A a, b \in 1..Len(f) : a # b => f[a][1] # f[b][1] }

SubmitInit ==
  /\ env = BaseEnv
  /\ environmentInfo = Null
  /\ solverConfig = Null
  /\ browser = 0
  /\ browsers = [b \in BrowserIds |-> [state |-> "none", executablePath |-> ""]]
  /\ timers = <<>>
  /\ call = [c \in Calls |-> [IdleCall EXCEPT !.pc = "off"]]
  /\ strat = [c \in Calls |-> [k \in Kinds |-> "idle"]]
  /\ pup = [c \in Calls |-> IdlePup]
  /\ sub = [c \in Calls |-> [n \in Subs |-> "idle"]]
  /\ page = [c \in Calls |-> BlankPage]
  /\ closer = IdleCloser
  /\ debug = IdleDebug
  /\ probe = NoProbe
  /\ \E r \in SolveResults, g \in BOOLEAN, f \in AdditionalFields :
        /\ ~g => f = <<>>
        /\ form = [IdleForm EXCEPT !.held = TRUE, !.solveResult = r,
                                   !.given = g, !.additional = f]
  /\ pow = IdlePow
  /\ http = [c \in Calls |-> NoHttp]

CallSubmitForm ==
  /\ form.held
  /\ form.pc = "idle"
  /\ Commit(submitForm(Cur))

\* the fetch of submitForm settles: the caller has the response or the error
FormFetchSettles ==
  /\ form.pc = "fetching"
  /\ Commit([Cur EXCEPT !.form.pc = "done"])

SubmitNext == CallSubmitForm \/ FormFetchSettles

SpecSubmit == SubmitInit /\ [][SubmitNext]_vars

(***************************************************************************)
(* The markup functions on their own: extractCaptchaChallenge and          *)
(* containsCaptcha are public and take any string.                         *)
(***************************************************************************)
MaxItems == 3          \* items of a markup string

\* the items of a markup string: every kind of text a pattern or indicator
\* matches, with the values its capture group can take (an empty value is
\* an attribute the capture group does not match)
MarkupItems ==
  [kind : {"data-sitekey"}, value : {K1, K2, <<>>}]
  \cup [kind : {"sitekey:", "json-sitekey", "initCaptcha"}, value : {K1}]
  \cup [kind : {"data-fc-sitekey", "fc-sitekey:", "json1-sitekey", "window.initCaptcha"},
        value : {K2}]
  \cup [kind : {"data-puzzle-endpoint", "puzzleEndpoint:"}, value : {<<"u">>, <<"v">>}]
  \cup [kind : {"data-difficulty", "difficulty:"}, value : {<<"0">>, <<"1", "2">>}]
  \cup [kind : {"data-lang", "lang:"}, value : {<<"e", "n">>, <<"d", "e">>}]
  \cup [kind : {"data-start", "start:"}, value : {<<"a", "u", "t", "o">>, <<"n">>}]
  \cup [kind : {"text", "frc-captcha"}, value : {<<>>}]

MarkupSpace == UNION { [1..n -> MarkupItems] : n \in 0..MaxItems }

MarkupInit ==
  /\ env = BaseEnv
  /\ environmentInfo = Null
  /\ solverConfig = Null
  /\ browser = 0
  /\ browsers = [b \in BrowserIds |-> [state |-> "none", executablePath |-> ""]]
  /\ timers = <<>>
  /\ call = [c \in Calls |-> [IdleCall EXCEPT !.pc = "off"]]
  /\ strat = [c \in Calls |-> [k \in Kinds |-> "idle"]]
  /\ pup = [c \in Calls |-> IdlePup]
  /\ sub = [c \in Calls |-> [n \in Subs |-> "idle"]]
  /\ page = [c \in Calls |-> BlankPage]
  /\ closer = IdleCloser
  /\ debug = IdleDebug
  /\ form = IdleForm
  /\ pow = IdlePow
  /\ http = [c \in Calls |-> NoHttp]
  /\ \E html \in MarkupSpace : probe = [NoProbe EXCEPT !.held = TRUE, !.html = html]

CallExtractCaptchaChallenge ==
  /\ probe.held
  /\ "extractCaptchaChallenge" \notin probe.asked
  /\ Commit([Cur EXCEPT !.probe.asked = @ \cup {"extractCaptchaChallenge"},
                        !.probe.challenge = extractCaptchaChallenge(probe.html)])

CallContainsCaptcha ==
  /\ probe.held
  /\ "containsCaptcha" \notin probe.asked
  /\ Commit([Cur EXCEPT !.probe.asked = @ \cup {"containsCaptcha"},
                        !.probe.contains = containsCaptcha(probe.html)])

MarkupNext == CallExtractCaptchaChallenge \/ CallContainsCaptcha

SpecMarkup == MarkupInit /\ [][MarkupNext]_vars

(***************************************************************************)
(* Properties.  call[c].outcome[k] is how the attempt of strategy k was    *)
(* decided: the result the strategy returned to the race, or               *)
(* [rejected |-> message] when the race rejected.                          *)
(***************************************************************************)
IsResult(o) == "success" \in DOMAIN o
Succeeded(o) == IsResult(o) /\ o.success
Rejected(o) == "rejected" \in DOMAIN o
Decided(o) == IsResult(o) \/ Rejected(o)

\* the error text of a failed attempt
AttemptError(o) == IF Rejected(o) THEN o.rejected ELSE o.error

\* solveCaptcha was entered by call c
Cascading(c) == call[c].config # Null

OutcomeAt(c, k) == call[c].outcome[call[c].strategies[k]]

AllThree == <<"puppeteer", "http", "simulation">>

\* C1: when strategy k is the first whose attempt returns success,
\* solveCaptcha has returned that strategy's result (its token with it),
\* strategies 1..k were invoked once each in list order, and none after k.
C1_FirstSuccessWins ==
  \A c \in Calls : \A k \in 1..Len(call[c].strategies) :
     ( /\ Succeeded(OutcomeAt(c, k))
       /\ \A m \in 1..(k - 1) : ~Succeeded(OutcomeAt(c, m)) )
     => /\ call[c].pc = "done"
        /\ call[c].result = OutcomeAt(c, k)
        /\ call[c].result.solution.solution = OutcomeAt(c, k).solution.solution
        /\ call[c].invoked = SubSeq(call[c].strategies, 1, k)

\* the second of three strategies wins after the first failed
C1_Witness ==
  \E c \in Calls :
     /\ call[c].strategies = AllThree
     /\ Decided(OutcomeAt(c, 1)) /\ ~Succeeded(OutcomeAt(c, 1))
     /\ Succeeded(OutcomeAt(c, 2))
     /\ call[c].pc = "done"
     /\ call[c].invoked = <<"puppeteer", "http">>

\* every attempt of call c failed and the call has returned
AllFailed(c) ==
  /\ Cascading(c)
  /\ call[c].pc = "done"
  /\ \A k \in 1..Len(call[c].strategies) :
        Decided(OutcomeAt(c, k)) /\ ~Succeeded(OutcomeAt(c, k))

\* C2: when every attempt fails, the error is 'All strategies failed. Last
\* error: <e>' with <e> the error text of the most recent failed attempt,
\* whether it threw, timed out or returned a failure result.
C2_LastErrorIsMostRecent ==
  \A c \in Calls :
     AllFailed(c) =>
        /\ ~call[c].result.success
        /\ call[c].result.error =
              "All strategies failed. Last error: "
                 \o AttemptError(OutcomeAt(c, Len(call[c].strategies)))

\* C3 speaks of an empty strategy list.  getConfig always sets
\* enableHttpFallback, so no call of solveCaptcha builds one:
StrategiesNeverEmpty ==
  \A c \in Calls : Cascading(c) => Len(call[c].strategies) >= 2

\* C4, with the text the code produces: an attempt decided by the timer is
\* recorded with the error 'Timeout after <ms>ms' (ms = config.timeout), and
\* in the same step the next strategy, if any, is started, or the call
\* returns; the strategy that is still pending is not waited for.
TimedOut(c, k, text) ==
  /\ OutcomeAt(c, k).rejected = text
  /\ call[c].i > k
  /\ call[c].i = k + 1 => call[c].lastError = text
  /\ IF k < Len(call[c].strategies)
     THEN Len(call[c].invoked) > k
     ELSE call[c].pc = "done"

C4_TimeoutMovesOn ==
  \A c \in Calls : \A k \in 1..Len(call[c].strategies) :
     Rejected(OutcomeAt(c, k)) =>
        TimedOut(c, k, "Timeout after " \o ToString(call[c].config.timeout) \o "ms")

\* C4 as the specification words it: the error text is 'timeout after <ms>ms'
C4_AsStated ==
  \A c \in Calls : \A k \in 1..Len(call[c].strategies) :
     Rejected(OutcomeAt(c, k)) =>
        TimedOut(c, k, "timeout after " \o ToString(call[c].config.timeout) \o "ms")

\* the first attempt timed out, the second strategy has been started and
\* the first is still running
C4_Witness ==
  \E c \in Calls :
     /\ call[c].strategies = AllThree
     /\ Rejected(OutcomeAt(c, 1))
     /\ call[c].i = 2
     /\ strat[c]["puppeteer"] \notin {"idle", "done"}
     /\ strat[c]["http"] = "fetch"

\* C5: under FairSpec every call of solveCaptcha returns, whatever the
\* strategies do and even if none settles; each step that invokes a
\* strategy invokes the one at the next index of the list, so the index
\* only grows and no strategy is invoked twice.
C5_Terminates ==
  /\ \A c \in Calls : (call[c].pc = "running") ~> (call[c].pc = "done")
  /\ [][\A c \in Calls :
          /\ call'[c].i >= call[c].i
          /\ call'[c].invoked # call[c].invoked =>
                /\ call'[c].i = call[c].i + 1
                /\ call'[c].invoked =
                      Append(call[c].invoked, call'[c].strategies[call'[c].i])]_vars

\* a call has returned after three attempts, the first two of which were
\* decided by their timers
C5_Witness ==
  \E c \in Calls :
     /\ call[c].strategies = AllThree
     /\ Rejected(OutcomeAt(c, 1)) /\ Rejected(OutcomeAt(c, 2))
     /\ call[c].pc = "done"
     /\ call[c].invoked = AllThree

\* C6: the promise of solveCaptcha never rejects: a call that has returned
\* holds a CaptchaSolveResult, a call that has not holds nothing, and a
\* failure is reported only once every strategy was attempted, as the
\* aggregate error.
C6_NeverRejects ==
  \A c \in Calls :
     /\ call[c].pc # "done" => call[c].result = Null
     /\ call[c].pc = "done" =>
           /\ IsResult(call[c].result)
           /\ (Cascading(c) /\ ~call[c].result.success) =>
                 /\ AllFailed(c)
                 /\ call[c].invoked = call[c].strategies
                 /\ call[c].result.error =
                       "All strategies failed. Last error: " \o call[c].lastError

\* mid-cascade: one attempt timed out, one returned a failure, the third
\* is running and the caller has been told nothing
C6_Witness ==
  \E c \in Calls :
     /\ call[c].strategies = AllThree
     /\ Rejected(OutcomeAt(c, 1))
     /\ IsResult(OutcomeAt(c, 2)) /\ ~Succeeded(OutcomeAt(c, 2))
     /\ call[c].pc = "running"
     /\ call[c].result = Null

\* exactly one of solution and error
WellFormed(r) ==
  /\ IsResult(r)
  /\ r.success => "solution" \in DOMAIN r /\ "error" \notin DOMAIN r
  /\ ~r.success => "error" \in DOMAIN r /\ "solution" \notin DOMAIN r

\* C7: every result returned by solveCaptcha, by a strategy, or by one of
\* the three wrappers has solution set iff success is true and error set
\* iff success is false.
C7_SolutionXorError ==
  \A c \in Calls :
     /\ call[c].pc = "done" => WellFormed(call[c].result)
     /\ \A k \in Kinds : IsResult(call[c].outcome[k]) => WellFormed(call[c].outcome[k])
     /\ pup[c].held # Null => WellFormed(pup[c].held)

\* a wrapper has returned a success after a strategy returned a failure
C7_Witness ==
  \E c \in Calls :
     /\ call[c].entry = "solveFromUrl"
     /\ call[c].pc = "done"
     /\ call[c].result.success
     /\ \E k \in Kinds : IsResult(call[c].outcome[k]) /\ ~call[c].outcome[k].success

formGet(fd, name) ==
  fd[CHOOSE k \in 1..Len(fd) :
       fd[k][1] = name /\ \A m \in 1..(k - 1) : fd[m][1] # name][2]

\* C9: a successful result of solveCaptcha for a challenge that has a site
\* key carries the token under 'frc-captcha-solution' and that site key
\* under 'frc-captcha-sitekey', whichever strategy or sub-strategy won.
C9_FormFields ==
  \A c \in Calls :
     ( /\ Cascading(c)
       /\ call[c].pc = "done"
       /\ call[c].result.success
       /\ "sitekey" \in DOMAIN call[c].challenge )
     => /\ formGet(call[c].result.formData, "frc-captcha-solution")
             = call[c].result.solution.solution
        /\ formGet(call[c].result.formData, "frc-captcha-sitekey")
             = call[c].challenge.sitekey

\* a browser sub-strategy won
C9_Witness ==
  \E c \in Calls :
     /\ call[c].pc = "done"
     /\ call[c].result.success
     /\ call[c].result.solution.method = "puppeteer"
     /\ "sitekey" \in DOMAIN call[c].challenge
     /\ call[c].challenge.sitekey = K2

\* C10: the token of a successful result is not the empty string, also
\* when a browser sub-strategy wins.
C10_TokenNonEmpty ==
  \A c \in Calls :
     (call[c].pc = "done" /\ call[c].result.success)
     => call[c].result.solution.solution # <<>>

\* the strategy whose result call c returned
Winner(c) == call[c].strategies[call[c].i]

Won(c) == call[c].pc = "done" /\ Succeeded(call[c].result)

\* C11: the method tag of a successful result tells the winning strategy:
\* two calls that return the same solution.method were won by the same
\* strategy.
C11_MethodTellsStrategy ==
  \A c, d \in Calls :
     (Won(c) /\ Won(d) /\ call[c].result.solution.method = call[d].result.solution.method)
     => Winner(c) = Winner(d)

\* the simulation strategy is listed for call c, which holds a site key and
\* a time limit longer than the strategy's delay
SimulationApplies(c) ==
  /\ call[c].pc = "running"
  /\ "sitekey" \in DOMAIN call[c].challenge
  /\ \E k \in 1..Len(call[c].strategies) : call[c].strategies[k] = "simulation"
  /\ call[c].config.timeout > SIM_DELAY

\* C12: under FairSpec, a call for a challenge with a site key that lists
\* the simulation strategy, with config.timeout above the 2000 ms delay,
\* returns success in the end, whatever the earlier strategies do.
C12_SimulationSucceeds ==
  \A c \in Calls : SimulationApplies(c) ~> Won(c)

\* the simulation won after the browser strategy timed out and the
\* protocol fallback failed
C12_Witness ==
  \E c \in Calls :
     /\ Won(c)
     /\ "sitekey" \in DOMAIN call[c].challenge
     /\ call[c].strategies = AllThree
     /\ Winner(c) = "simulation"
     /\ call[c].result.solution.debugInfo = "api-simulation"
     /\ Rejected(OutcomeAt(c, 1))
     /\ IsResult(OutcomeAt(c, 2)) /\ ~Succeeded(OutcomeAt(c, 2))

\* the body of strategy k of call c has started and has not returned
InProgress(c, k) == strat[c][k] \notin {"idle", "done"}

\* C13, as the code has it: the call awaits one attempt at a time.  A
\* strategy is started only when every earlier attempt has been decided and
\* no later strategy has been started; of the strategies in progress all but
\* the one being awaited lost their race to the timer, and their work may
\* still be going on.
C13_OneAttemptAwaited ==
  \A c \in Calls : \A k \in 1..Len(call[c].strategies) :
     /\ (k < call[c].i /\ k <= Len(call[c].invoked)) => Decided(OutcomeAt(c, k))
     /\ k > call[c].i => ~InProgress(c, call[c].strategies[k])
     /\ (InProgress(c, call[c].strategies[k]) /\ k < call[c].i)
           => OutcomeAt(c, k) = [rejected |-> timeoutMessage(call[c].config.timeout)]
     /\ Len(call[c].invoked) = Min(call[c].i, Len(call[c].strategies))

\* C13 as stated: at no time is the work of two strategies of one call in
\* progress
C13_AsStated ==
  \A c \in Calls : \A k1, k2 \in Kinds :
     (InProgress(c, k1) /\ InProgress(c, k2)) => k1 = k2

\* the protocol fallback is being awaited while the browser strategy, which
\* timed out, is still at work
C13_Witness ==
  \E c \in Calls :
     /\ call[c].pc = "running"
     /\ call[c].strategies = AllThree
     /\ call[c].i = 2
     /\ Rejected(OutcomeAt(c, 1))
     /\ InProgress(c, "puppeteer")
     /\ InProgress(c, "http")

\* the timer createTimeout set for attempt n of call c is at position p
OwnTimer(p, c, n) ==
  /\ timers[p].call = c
  /\ timers[p].kind = "outer"
  /\ timers[p].n = n

\* C14: a step of a strategy that the call is not awaiting (its attempt
\* was decided by the timer), its return with a success or a failure
\* included, leaves the locals of the call as they are: result, token, last
\* error, index.  And an attempt is failed by a timer only when the timer
\* that fires is the one set for that attempt.
C14_AbandonedHasNoEffect ==
  [][\A c \in Calls :
       /\ \A k \in Kinds :
            ( /\ InProgress(c, k)
              /\ strat'[c][k] # strat[c][k]
              /\ ~racing(Cur, c, k) )
            => call'[c] = call[c]
       /\ ( /\ call[c].pc = "running"
            /\ call'[c].i # call[c].i
            /\ Rejected(call'[c].outcome[call[c].strategies[call[c].i]]) )
          => \E p \in 1..Len(timers) :
                /\ OwnTimer(p, c, call[c].i)
                /\ timers[p].rem = 0
                /\ Len(timers') >= Len(timers) - 1
                /\ SubSeq(timers', 1, Len(timers) - 1) = RemoveAt(timers, p)]_vars

\* the call returned the token of the protocol fallback; the browser
\* strategy, which had timed out, has returned since, and every timer of
\* the call has fired
C14_Witness ==
  \E c \in Calls :
     /\ Won(c)
     /\ Winner(c) = "http"
     /\ OutcomeAt(c, 1) = [rejected |-> timeoutMessage(call[c].config.timeout)]
     /\ strat[c]["puppeteer"] = "done"
     /\ page[c].state = "closed"
     /\ timers = <<>>

\* a browser the library launched that is up
Live(b) == browsers[b].state = "connected"

\* C15: the browser is a singleton: every browser that is up is the one
\* this.browser refers to, so no two are up at once.
C15_SingleLiveBrowser ==
  \A b \in BrowserIds : Live(b) => browser = b

\* call c enters solveCaptchaWithPuppeteer in this step
EntersBrowserStrategy(c) ==
  strat[c]["puppeteer"] = "idle" /\ strat'[c]["puppeteer"] # "idle"

C17_PageClosedOnExit ==
  [][\A c \in Calls :
       (strat[c]["puppeteer"] # "done" /\ strat'[c]["puppeteer"] = "done")
       => /\ page[c].state = "open" => strat[c]["puppeteer"] = "closing"
          /\ page'[c].state # page[c].state => page'[c].state = "closed"
          /\ (strat[c]["puppeteer"] = "closing" /\ racing(Cur, c, "puppeteer"))
             => call'[c].outcome["puppeteer"] = pup[c].held]_vars

\* the strategy returned the success it held although the close of its
\* page failed
C17_Witness ==
  \E c \in Calls :
     /\ strat[c]["puppeteer"] = "done"
     /\ page[c].state = "open"
     /\ Succeeded(call[c].outcome["puppeteer"])
     /\ Won(c)

\* C18: closeBrowser (cleanup) never rejects, also when browser.close()
\* fails, and at the step it returns the shared handle is cleared.
C18_CleanupSwallowsCloseError ==
  [][(closer' # closer /\ closer'.pc = "done")
     => (closer'.result = "resolved" /\ browser' = 0)]_vars

\* C19: the profile is computed once: from the first detectEnvironment on,
\* environmentInfo is what every later call of it returns, and no step
\* changes it, whatever became of the process environment.
C19_ProfileComputedOnce ==
  [][environmentInfo # Null => environmentInfo' = environmentInfo]_vars

\* the second solveCaptcha (which calls detectEnvironment) was made after
\* the environment had changed to one that profiles differently
C19_Witness ==
  /\ environmentInfo # Null
  /\ computeEnvironment(env) # environmentInfo
  /\ call["c2"].pc = "running"
  /\ call["c2"].config = deriveConfig(environmentInfo)

\* a browser the library has asked puppeteer to launch
Launched(b) == browsers[b].state # "none"

\* C20: once the profile is cached nothing depends on the current
\* environment: every launch, being made under the same cached profile,
\* is made with the same executable path.
C20_LaunchDependsOnProfileOnly ==
  \A b1, b2 \in BrowserIds :
     (Launched(b1) /\ Launched(b2))
     => browsers[b1].executablePath = browsers[b2].executablePath

(***************************************************************************)
(* Markup extraction, in the terms of the rule tables: a rule matches a    *)
(* markup string when some item is of a kind the rule matches and has a    *)
(* value for the capture group; its capture is that of the leftmost one.   *)
(***************************************************************************)
RuleMatches(html, rule) ==
  \E k \in 1..Len(html) : html[k].kind \in rule /\ Len(html[k].value) > 0

CaptureOf(html, rule) ==
  LET first == CHOOSE k \in 1..Len(html) :
                 /\ html[k].kind \in rule /\ Len(html[k].value) > 0
                 /\ \A m \in 1..(k - 1) :
                       ~(html[m].kind \in rule /\ Len(html[m].value) > 0)
  IN html[first].value

MatchingRules(html, table) ==
  {p \in 1..Len(table) : RuleMatches(html, table[p])}

FirstMatching(html, table) ==
  CHOOSE p \in MatchingRules(html, table) :
     \A q \in MatchingRules(html, table) : p <= q

Extracted == "extractCaptchaChallenge" \in probe.asked

\* C21: extractCaptchaChallenge returns null iff no site-key rule matches the
\* markup, and otherwise returns as site key the non-empty capture of the
\* first rule of the table that matches, whatever later rules capture.
C21_FirstSitekeyRuleWins ==
  Extracted =>
    /\ (probe.challenge = Null) <=> (MatchingRules(probe.html, SitekeyPatterns) = {})
    /\ probe.challenge # Null =>
         /\ probe.challenge.sitekey =
              CaptureOf(probe.html,
                        SitekeyPatterns[FirstMatching(probe.html, SitekeyPatterns)])
         /\ probe.challenge.sitekey # <<>>

\* a later rule matches earlier in the text and captures another key
C21_Witness ==
  /\ Extracted
  /\ Len(probe.html) >= 2
  /\ probe.html[1] = [kind |-> "json-sitekey", value |-> K1]
  /\ probe.html[2] = [kind |-> "data-sitekey", value |-> K2]
  /\ probe.challenge # Null
  /\ probe.challenge.sitekey = K2

\* the optional fields with their rule tables
OptionalFields ==
  [puzzleEndpoint |-> PuzzleEndpointPatterns, difficulty |-> DifficultyPatterns,
   lang |-> LangPatterns, startMode |-> StartPatterns]

\* the number a string of one or two decimal digits denotes
Numeral(digits) ==
  LET d(k) == (CHOOSE n \in 1..10 : Digits[n] = digits[k]) - 1
  IN IF Len(digits) = 1 THEN d(1) ELSE 10 * d(1) + d(2)

\* what the first matching rule of a field's own table captures
OwnCapture(html, f) ==
  CaptureOf(html, OptionalFields[f][FirstMatching(html, OptionalFields[f])])

\* C22: in an extracted challenge each optional field is present exactly when
\* a rule of its own table matches, and then holds the capture of the first
\* such rule (the difficulty as a number), whatever the other fields and the
\* site key are; a field with no matching rule is absent, startMode included.
C22_OptionalFieldsIndependent ==
  (Extracted /\ probe.challenge # Null) =>
    \A f \in DOMAIN OptionalFields :
      /\ (f \in DOMAIN probe.challenge)
            <=> (MatchingRules(probe.html, OptionalFields[f]) # {})
      /\ f \in DOMAIN probe.challenge =>
            probe.challenge[f] = IF f = "difficulty"
                                 THEN Numeral(OwnCapture(probe.html, f))
                                 ELSE OwnCapture(probe.html, f)

\* the second rule of the lang table matches first in the text, the first
\* rule wins, and no other optional field is set
C22_Witness ==
  /\ Extracted
  /\ probe.html = << [kind |-> "lang:", value |-> <<"d", "e">>],
                     [kind |-> "data-lang", value |-> <<"e", "n">>],
                     [kind |-> "json-sitekey", value |-> K1] >>
  /\ probe.challenge = [sitekey |-> K1, lang |-> <<"e", "n">>]

\* C29: whenever extractCaptchaChallenge returns a challenge with a
\* difficulty, that difficulty is a positive integer.
C29_DifficultyPositive ==
  (Extracted /\ probe.challenge # Null /\ "difficulty" \in DOMAIN probe.challenge)
     => probe.challenge.difficulty > 0

Detected == "containsCaptcha" \in probe.asked

\* C30: for every markup, if containsCaptcha returns false then
\* extractCaptchaChallenge returns null.
C30_DetectionCoversExtraction ==
  (Extracted /\ Detected /\ ~probe.contains) => probe.challenge = Null

Serverless == environmentInfo # Null /\ environmentInfo.isServerless

NotAvailable == "FAILED: Puppeteer not available in current environment"

OwnStep(c) ==
  \/ call'[c] # call[c]
  \/ strat'[c] # strat[c]
  \/ pup'[c] # pup[c]
  \/ sub'[c] # sub[c]

\* C25: concurrent solveCaptcha calls keep to their own pages: no step of a
\* call touches the page of another call, a call's page is opened once, by
\* its own browser.newPage(), and is closed only by its own finally block.
C25_OwnPageOnly ==
  [][\A c \in Calls :
       /\ \A d \in Calls \ {c} : OwnStep(c) => page'[d] = page[d]
       /\ page'[c].state # page[c].state =>
            \/ /\ page[c].state = "none"
               /\ page'[c].state = "open"
               /\ strat[c]["puppeteer"] = "newPage"
            \/ /\ page[c].state = "open"
               /\ page'[c].state = "closed"
               /\ strat[c]["puppeteer"] = "closing"]_vars

\* two calls on one browser session: the first has closed its page while a
\* sub-strategy of the second is at work on its own page
C25_Witness ==
  /\ browser = pup["c2"].browser
  /\ \A b \in BrowserIds \ {browser} : browsers[b].state = "none"
  /\ page["c1"].state = "closed"
  /\ page["c2"].state = "open"
  /\ \E name \in Subs : sub["c2"][name] = "waiting"

\* the configuration the profile info calls for, field by field
ConfigOf(cfg, info) ==
  /\ cfg.timeout = (IF info.isProduction THEN 20000 ELSE 30000)
  /\ cfg.maxRetries = (IF info.isProduction THEN 2 ELSE 3)
  /\ cfg.enableAntiDetection = info.isProduction
  /\ cfg.resourceLimits = (IF info.isServerless
                           THEN [maxMemory |-> 512, maxCpuUsage |-> 80]
                           ELSE [maxMemory |-> 1024, maxCpuUsage |-> 90])
  /\ cfg.enableHttpFallback

\* C26: the solver configuration, once derived, never changes, and it is the
\* one the cached profile calls for: timeout 20000 and 2 retries in
\* production, 30000 and 3 otherwise; anti-detection iff production; limits
\* 512/80 when serverless, 1024/90 otherwise; HTTP fallback enabled.  Every
\* call of getConfig hands out that same configuration.
C26_ConfigFixed ==
  [][/\ solverConfig # Null => solverConfig' = solverConfig
     /\ solverConfig' # Null =>
          /\ environmentInfo' # Null
          /\ ConfigOf(solverConfig', environmentInfo')
          /\ \A c \in Calls :
               call'[c].pc \in {"running", "done"} => call'[c].config = solverConfig']_vars

\* the configuration of a production profile, handed out by two calls of
\* getConfig, after the process environment has come to say development
C26_Witness ==
  /\ solverConfig # Null
  /\ environmentInfo.isProduction
  /\ solverConfig.timeout = 20000
  /\ env.NODE_ENV = "development"
  /\ call["c1"].pc = "done"
  /\ debug.pc = "done"

\* the place of sub-strategy name in the puppeteerStrategies array
SubIndex(name) == CHOOSE k \in 1..Len(SubOrder) : SubOrder[k] = name

\* the inner loop of call c comes to its return while the cascade awaits it
PupReturns(c) ==
  strat[c]["puppeteer"] = "racing" /\ strat'[c]["puppeteer"] = "closing"

\* the error with which the manual sub-strategy fails in this step
ManualError(c) ==
  IF sub'[c]["manual"] = "abandoned" THEN timeoutMessage(SOLVE_TIMEOUT)
  ELSE IF sub[c]["manual"] = "loading" THEN "Navigation timeout of 30000 ms exceeded"
  ELSE "Manual integration timeout"

\* C27: the browser-automation strategy starts its sub-strategies in the order
\* direct widget, iframe, manual integration, each at most once and each only
\* after the ones before it; it returns at the first that succeeds, with that
\* sub-strategy's token and method tag 'puppeteer'; when the third has failed
\* too it returns the failure 'All Puppeteer strategies failed. Last error:
\* <e>' with <e> the error of that last failure.
C27_SubStrategiesInOrder ==
  [][\A c \in Calls :
       /\ \A n \in Subs :
            (sub'[c][n] = "loading" /\ sub[c][n] # "loading") =>
               /\ sub[c][n] = "idle"
               /\ pup'[c].j = SubIndex(n)
               /\ \A m \in Subs :
                    /\ SubIndex(m) < SubIndex(n) => sub'[c][m] \notin {"idle", "loading"}
                    /\ SubIndex(m) > SubIndex(n) => sub'[c][m] = "idle"
       /\ PupReturns(c) =>
            LET r == pup'[c].held
                n == SubOrder[pup[c].j]
            IN IF r.success
               THEN /\ sub[c][n] \notin {"idle", "done"}
                    /\ sub'[c][n] = "done"
                    /\ r.solution.method = "puppeteer"
                    /\ r.solution.solution = readSolutionValue(c, n)
                    /\ \A m \in Subs : SubIndex(m) > pup[c].j => sub'[c][m] = "idle"
               ELSE /\ n = "manual"
                    /\ \A m \in Subs : sub'[c][m] \notin {"idle", "loading"}
                    /\ r.error = "All Puppeteer strategies failed. Last error: "
                                    \o ManualError(c)]_vars

\* all three sub-strategies failed, the manual one last with its own error
C27_Witness ==
  /\ strat["c1"]["puppeteer"] = "closing"
  /\ call["c1"].i = 1
  /\ pup["c1"].held =
       Failure("All Puppeteer strategies failed. Last error: Manual integration timeout")
  /\ \A n \in Subs : sub["c1"][n] = "done"

\* C28: every browser sub-strategy is raced against the per-attempt budget of
\* the outer cascade, config.timeout, in every environment.
C28_InnerBudgetIsConfigTimeout ==
  \A p \in 1..Len(timers) :
     timers[p].kind = "inner" => timers[p].dur = call[timers[p].call].config.timeout

\* call c came in through one of the two markup wrappers
FromMarkup(c) == call[c].entry \in {"solveFromHtml", "solveFromUrl"}

NotFoundError(c) ==
  IF call[c].entry = "solveFromUrl" THEN "No FriendlyCaptcha found on the page"
  ELSE "No FriendlyCaptcha found in the HTML content"

\* C31: solveFromHtml and solveFromUrl never throw; they enter solveCaptcha
\* only with markup for which containsCaptcha is true and with the challenge
\* extractCaptchaChallenge returned for it; otherwise they return a failure
\* with the error of the first step that failed (the fetch, the indicator
\* test, the extraction, in that order), no strategy is invoked and no
\* browser is launched.
C31_WrappersGateTheCascade ==
  \A c \in Calls : FromMarkup(c) =>
    /\ call[c].pc = "done" => IsResult(call[c].result)
    /\ Cascading(c) =>
         /\ call[c].html.held
         /\ containsCaptcha(call[c].html.text)
         /\ call[c].challenge # Null
         /\ call[c].challenge = extractCaptchaChallenge(call[c].html.text)
    /\ (call[c].pc = "done" /\ ~Cascading(c)) =>
         /\ ~call[c].result.success
         /\ call[c].result.error \in
              (IF ~call[c].html.held
               THEN {"fetch failed", "Failed to fetch page: 404"}
               ELSE IF ~containsCaptcha(call[c].html.text) THEN {NotFoundError(c)}
               ELSE {"Failed to extract CAPTCHA challenge"})
         /\ call[c].html.held =>
               (~containsCaptcha(call[c].html.text)
                  \/ extractCaptchaChallenge(call[c].html.text) = Null)
         /\ call[c].invoked = <<>>
         /\ \A k \in Kinds : strat[c][k] = "idle"
         /\ browser = 0
         /\ \A b \in BrowserIds : browsers[b].state = "none"

\* markup with a site key in a script property and no indicator substring:
\* the indicator test fails first and the wrapper reports it
C31_Witness ==
  /\ call["c1"].entry = "solveFromUrl"
  /\ call["c1"].pc = "done"
  /\ call["c1"].html.held
  /\ extractCaptchaChallenge(call["c1"].html.text) # Null
  /\ call["c1"].result = Failure("No FriendlyCaptcha found on the page")

\* the result handed to submitForm is one it accepts
Submittable(r) == r.success /\ "solution" \in DOMAIN r

\* C32: submitForm sends a request only for a successful result with a
\* solution: for any other result it throws 'Cannot submit form: CAPTCHA solve
\* was not successful' and sends nothing; otherwise it sends exactly one POST
\* whose body starts with frc-captcha-solution = the token, then
\* frc-captcha-sitekey, then the additional fields in their order.
C32_SubmitOnlySolved ==
  form.pc # "idle" =>
    IF Submittable(form.solveResult)
    THEN /\ form.pc \in {"fetching", "done"}
         /\ Len(form.requests) = 1
         /\ form.requests[1].method = "POST"
         /\ LET body == form.requests[1].body
            IN /\ Len(body) = 2 + Len(form.additional)
               /\ body[1] = <<"frc-captcha-solution", form.solveResult.solution.solution>>
               /\ body[2][1] = "frc-captcha-sitekey"
               /\ \A k \in 1..Len(form.additional) : body[2 + k] = form.additional[k]
    ELSE /\ form.pc = "threw"
         /\ form.error = "Cannot submit form: CAPTCHA solve was not successful"
         /\ form.requests = <<>>

\* a solved result posted with two additional fields
C32_Witness ==
  /\ form.pc = "done"
  /\ Submittable(form.solveResult)
  /\ form.solveResult.solution.solution = <<"s", "1">>
  /\ Len(form.additional) = 2
  /\ Len(form.requests) = 1
  /\ Len(form.requests[1].body) = 4

\* the characters of Number.prototype.toString(16)
HexDigits == {Digits[k] : k \in 1..16}

\* tok is '<pre>.<workValue>.<now>' with a hexadecimal work value
TokenOf(tok, pre, now) ==
  LET work == SubSeq(tok, Len(pre) + 2, Len(tok) - Len(now) - 1)
  IN /\ Len(tok) >= Len(pre) + Len(now) + 3
     /\ tok = pre \o Dot \o work \o Dot \o now
     /\ \A k \in 1..Len(work) : work[k] \in HexDigits

\* C33: the protocol-fallback strategy never throws: once it has ended it has
\* returned a result.  A rejected fetch, a puzzle response that is not ok
\* ('Failed to fetch puzzle: <status>'), a body that does not parse and a body
\* without a data field ('HTTP solve failed') each give a failure with that
\* error; a success comes only from a body with a data field, and its token is
\* '<first 16 characters of data>.<workValue>.<timestamp>'.
C33_HttpNeverThrows ==
  \A c \in Calls :
    LET h == http[c]
        r == h.returned
    IN /\ strat[c]["http"] = "done" <=> h.got # "none"
       /\ h.got # "none" => IsResult(r) /\ (~r.success => "error" \in DOMAIN r)
       /\ h.got = "rejected" => ~r.success /\ r.error = "fetch failed"
       /\ h.got = "not ok" => ~r.success /\ r.error = "Failed to fetch puzzle: 500"
       /\ h.got = "unparsable" => ~r.success /\ r.error = "Unexpected token < in JSON"
       /\ (h.got = "parsed" /\ h.body.data = <<>>) =>
             ~r.success /\ r.error = "HTTP solve failed"
       /\ (IsResult(r) /\ r.success) =>
             /\ h.got = "parsed"
             /\ h.body.data # <<>>
             /\ TokenOf(r.solution.solution, substring0(h.body.data, 16), h.now)

\* one call won with puzzle data longer than 16 characters, the other was
\* answered with a body that has no data field
C33_Witness ==
  /\ http["c1"].got = "parsed"
  /\ Len(http["c1"].body.data) > 16
  /\ http["c1"].returned.success
  /\ call["c1"].result = http["c1"].returned
  /\ http["c2"].got = "parsed"
  /\ http["c2"].body.data = <<>>
  /\ http["c2"].returned = Failure("HTTP solve failed")

\* nonce n makes the hash of data + n start with floor(difficulty / 1000) zeros
Hit(n) ==
  startsWith(simpleHash(pow.data \o toStringRadix(n, 10)),
             repeat0(pow.difficulty \div 1000))

\* C34: the nonce search always ends by returning, after at most 10000 hash
\* evaluations: the hash of data + nonce for the smallest nonce in 0..9999
\* whose hash starts with floor(difficulty / 1000) zeros, and the hash of
\* data + current time when there is none; the work value is never empty.
C34_NonceSearchBounded ==
  pow.pc # "idle" =>
    /\ pow.pc \in {"loop", "returned"}
    /\ pow.hashed <= 10000
    /\ pow.pc = "returned" =>
          /\ Len(pow.value) > 0
          /\ IF \E n \in 0..9999 : Hit(n)
             THEN LET least == CHOOSE n \in 0..9999 :
                                  Hit(n) /\ \A m \in 0..(n - 1) : ~Hit(m)
                  IN pow.value = simpleHash(pow.data \o toStringRadix(least, 10))
             ELSE pow.value = simpleHash(pow.data \o pow.now)

\* how often strategy k was invoked by call c
Attempts(c, k) == Cardinality({n \in 1..Len(call[c].invoked) : call[c].invoked[n] = k})

\* C35: within one solveCaptcha call no strategy is attempted more than once,
\* whatever config.maxRetries says: the invocations never outnumber the
\* strategy list, which has at most 3 entries.
C35_NoStrategyRetried ==
  \A c \in Calls :
    (call[c].pc \in {"running", "done"} /\ call[c].config # Null) =>
      /\ call[c].config.maxRetries > 1
      /\ \A k \in Kinds : Attempts(c, k) <= 1
      /\ Len(call[c].invoked) <= Len(call[c].strategies)
      /\ Len(call[c].strategies) <= 3

\* a call with maxRetries = 3 whose three strategies all failed, the first
\* two by rejected attempts, returned after three invocations
C35_Witness ==
  /\ call["c1"].pc = "done"
  /\ Len(call["c1"].strategies) = 3
  /\ call["c1"].config.maxRetries = 3
  /\ Len(call["c1"].invoked) = 3
  /\ Rejected(call["c1"].outcome["puppeteer"])
  /\ Rejected(call["c1"].outcome["http"])
  /\ ~call["c1"].result.success

\* no call of solveCaptcha is in progress
Quiet == \A c \in Calls : call[c].pc # "running"

\* closeBrowser returns to cleanup in this step, by resolving or by throwing
CleanupReturns == closer' # closer /\ closer'.pc = "done"

\* the promise of the last cleanup() resolved
CleanupResolved == closer.pc = "done" /\ closer.result = "resolved"

\* C36: a cleanup() that runs while no solveCaptcha call is in progress leaves
\* no live browser and a null shared handle; a cleanup() that finds the handle
\* null changes nothing; and a browser strategy entered while the handle is
\* null launches a browser that did not exist before.
C36_CleanupLeavesNothing ==
  [][/\ (CleanupReturns /\ Quiet /\ Quiet' /\ closer.target \in {0, browser})
        => /\ browser' = 0
           /\ \A b \in BrowserIds : browsers'[b].state # "connected"
     /\ (CleanupReturns /\ browser = 0 /\ closer.pc # "closing")
        => /\ browser' = 0
           /\ browsers' = browsers
           /\ CleanupResolved'
     /\ \A c \in Calls :
          (EntersBrowserStrategy(c) /\ browser = 0 /\ strat'[c]["puppeteer"] = "launch")
          => \E b \in BrowserIds :
                /\ browsers[b].state = "none"
                /\ browsers'[b].state = "launching"
                /\ pup'[c].browser = b]_vars

\* nothing that call c started is in progress: no strategy and no browser
\* sub-strategy between its start and its end, and no page open
NothingRunning(c) ==
  /\ \A k \in Kinds : strat[c][k] \in {"idle", "done"}
  /\ \A n \in Subs : sub[c][n] \in {"idle", "done"}
  /\ page[c].state # "open"

\* C37: once solveCaptcha has returned, nothing it started is in progress or
\* starts: every page it opened is closed and none of its strategies and
\* browser sub-strategies is running, also when the outer timer abandoned
\* the automation attempt.
C37_NothingLeftRunning ==
  \A c \in Calls : call[c].pc = "done" => NothingRunning(c)

\* sub-strategy name of call c is between its start and its end: it has a
\* load, a wait or an evaluation pending on the page
OnThePage(c, name) == sub[c][name] \in {"loading", "waiting", "reading", "abandoned"}

\* C38: no two browser sub-strategies operate on the page at once: at the step
\* that loads the document of sub-strategy j+1 into the shared page,
\* sub-strategy j has nothing pending on that page, also when its timer
\* abandoned it.
C38_OneSubStrategyOnThePage ==
  [][\A c \in Calls : \A j \in 1..(Len(SubOrder) - 1) :
        (sub[c][SubOrder[j + 1]] = "idle" /\ sub'[c][SubOrder[j + 1]] = "loading")
        => ~OnThePage(c, SubOrder[j])']_vars

====
